---- MODULE Spec2Model ----
(***************************************************************************)
(* A model of core::parallel::DistributedDualtreeTaskQueue                 *)
(* (distributed_dualtree_task_queue.h): the active query-subtable slots    *)
(* kept in four parallel vectors, the list of checked-out query subtables, *)
(* the work counters, and the calls the queue makes on its table exchange. *)
(*                                                                         *)
(* Vectors are 1-based here (slot k of the model is index k-1 of the       *)
(* source).  A state of the queue is handled as a record with one field    *)
(* per data member, so that a member function that calls other member      *)
(* functions is the composition of their operators.                        *)
(***************************************************************************)
EXTENDS Integers, Sequences, FiniteSets, TLC

VARIABLES
  assigned_work_,                       \* vector: DisjointIntIntervals per slot
  checked_out_query_subtables_,         \* list of QuerySubTableLock, front first
  num_exported_query_subtables_,
  num_imported_query_subtables_,
  num_remaining_tasks_,
  num_threads_,
  query_subtables_,                     \* vector: SubTable per slot
  remaining_work_for_query_subtables_,  \* vector: unsigned long per slot
  table_exchange_,                      \* what the queue has asked of the exchange
  tasks_,                               \* vector: task priority queue per slot
  remaining_global_computation_,
  remaining_local_computation_,
  aborted,                              \* the process died on a null dereference
  threads,                              \* the worker threads calling the queue
  lock_on_dequeue,                      \* whether the workers check subtables out
  load_balancing_turns,                 \* query subtable transfers so far
  processed,                            \* tuples GenerateTasks has been given
  replayed,                             \* it has been given one of them again
  peer,                                 \* the queue of the other process
  broadcast                             \* completed work the exchange routes

vars == <<assigned_work_, checked_out_query_subtables_,
          num_exported_query_subtables_, num_imported_query_subtables_,
          num_remaining_tasks_, num_threads_, query_subtables_,
          remaining_work_for_query_subtables_, table_exchange_, tasks_,
          remaining_global_computation_, remaining_local_computation_,
          aborted, threads, lock_on_dequeue,
          load_balancing_turns, processed, replayed, peer, broadcast>>

-----------------------------------------------------------------------------
(* Bounds of the model.                                                    *)

\* Points in the local query table, in the local reference table and in
\* each table of the peer.
NumPoints == 2

\* Largest num_threads_in given to Init.
MaxThreads == 2

\* Longest received_subtable_ids vector given to one GenerateTasks call.
MaxBatch == 1

\* Largest number of reference subtables that arrive with one imported
\* query subtable.
MaxImportTasks == 1

-----------------------------------------------------------------------------
(* The world, the trees and the subtables.                                 *)

\* boost::mpi::communicator: this process is rank 0 of two.
world == [rank |-> 0, size |-> 2]

Ranks == 0 .. (world.size - 1)

RemoteRanks == Ranks \ {world.rank}

\* unsigned long arithmetic wraps.  TLC's integers have 32 bits, so the
\* 64-bit counters are kept modulo 2^30; every quantity of the model is far
\* below that, so a counter wraps here exactly when it wraps in the source.
ULongModulus == 1073741824

USub(a, b) == (a - b) % ULongModulus

UAdd(a, b) == (a + b) % ULongModulus

\* A tree node is a contiguous range of its table.
Node(begin, count) == [begin |-> begin, count |-> count]

is_leaf(n) == n.count <= 1

left(n) == Node(n.begin, n.count \div 2)

right(n) == Node(n.begin + (n.count \div 2), n.count - (n.count \div 2))

RootNode == Node(0, NumPoints)

RECURSIVE Frontiers(_)
\* The frontiers of the subtree under n: the lists of nodes that
\* get_frontier_nodes_bounded_by_number may return.
Frontiers(n) ==
  IF is_leaf(n) THEN {<<n>>}
  ELSE {<<n>>} \cup {l \o r : l \in Frontiers(left(n)), r \in Frontiers(right(n))}

RECURSIVE Descendants(_)
Descendants(n) ==
  IF is_leaf(n) THEN {n}
  ELSE {n} \cup Descendants(left(n)) \cup Descendants(right(n))

\* SubTable: the table it belongs to (by rank), its start node, the rank it
\* was received from and its cache block.
SubTable(rank, n, origin, cache) ==
  [rank |-> rank, begin |-> n.begin, count |-> n.count,
   originating_rank |-> origin, cache_block_id |-> cache]

subtable_id(t) == <<t.rank, t.begin, t.count>>

start_node(t) == Node(t.begin, t.count)

set_start_node(t, n) == [t EXCEPT !.begin = n.begin, !.count = n.count]

\* SubTable::includes: the same table, and the range covers the other's.
includes(t, u) ==
  /\ t.rank = u.rank
  /\ t.begin <= u.begin
  /\ u.begin + u.count <= t.begin + t.count

\* The query subtables a peer may send here: the whole of its query table.
ImportableQuerySubTables ==
  {SubTable(r, RootNode, r, -1) : r \in RemoteRanks}

\* Cache block of a reference subtable held in the exchange's cache; the
\* blocks are numbered by rank and start of the range.
CacheBlockOf(rank, n) == rank * (NumPoints + 1) + n.begin + (IF is_leaf(n) THEN 0 ELSE NumPoints)

\* The tuples (rank, begin, count, cache id) that the exchange hands to
\* GenerateTasks: the local reference tree's root, which is not in the cache
\* (cache id -1), and, of each peer, the root and the root's left child.
ReceivedSubTableIds ==
  {<<world.rank, RootNode.begin, RootNode.count, -1>>}
  \cup {<<r, n.begin, n.count, CacheBlockOf(r, n)>> :
          r \in RemoteRanks, n \in {RootNode, left(RootNode)}}

CacheIds == {t[4] : t \in ReceivedSubTableIds}

\* TableExchange::FindSubTable: the cached subtable, or NULL.  The cache
\* keeps its blocks, so a cache id is answered the same way every time.
NullSubTable == [rank |-> -1, begin |-> 0, count |-> 0,
                 originating_rank |-> -1, cache_block_id |-> -1]

FindSubTable(cache_id) ==
  LET hit == {t \in ReceivedSubTableIds : t[4] = cache_id /\ cache_id >= 0} IN
  IF hit = {} THEN NullSubTable
  ELSE LET t == CHOOSE t \in hit : TRUE IN
       SubTable(t[1], Node(t[2], t[3]), t[1], cache_id)

\* TableExchange::FindByBeginCount on the local table.
FindByBeginCount(begin, count) == Node(begin, count)

-----------------------------------------------------------------------------
(* Bounds, distances and priorities.  The points of a table lie on a line, *)
(* point p of rank r at coordinate r * NumPoints + p.                      *)

Max(a, b) == IF a >= b THEN a ELSE b

Abs(a) == IF a >= 0 THEN a ELSE -a

BoundLo(t) == t.rank * NumPoints + t.begin

BoundHi(t) == t.rank * NumPoints + t.begin + t.count - 1

\* bound().RangeDistanceSq: the least and the greatest squared distance.
RangeDistanceSq(q, r) ==
  LET lo == Max(0, Max(BoundLo(r) - BoundHi(q), BoundLo(q) - BoundHi(r)))
      hi == Max(Abs(BoundHi(r) - BoundLo(q)), Abs(BoundHi(q) - BoundLo(r)))
  IN [lo |-> lo * lo, hi |-> hi * hi]

\* process_rank_favor_factor_
process_rank_favor_factor_ == 0

\* TableExchange::process_rank: the distance to the owner of the reference.
process_rank(rank) == Abs(rank - world.rank)

\* Twice the priority of PushTask, to stay in the integers:
\* priority = - range.mid() - favor * process_rank.
Priority2(q, r) ==
  LET range == RangeDistanceSq(q, r) IN
  0 - (range.lo + range.hi)
    - 2 * process_rank_favor_factor_ * process_rank(r.rank)

\* TaskType(query subtable, reference subtable, priority); work() is the
\* product of the two point counts.
Task(q, r, priority) ==
  [query_subtable |-> q, reference_subtable |-> r, priority |-> priority,
   work |-> q.count * r.count]

\* TaskPriorityQueueType: kept as the list of its tasks, highest priority
\* first; among equal priorities the older task is ahead.
HeapPush(h, t) ==
  LET ahead == Cardinality({k \in 1 .. Len(h) : h[k].priority >= t.priority}) IN
  SubSeq(h, 1, ahead) \o <<t>> \o SubSeq(h, ahead + 1, Len(h))

HeapTop(h) == h[1]

HeapPop(h) == Tail(h)

-----------------------------------------------------------------------------
(* DisjointIntIntervals.  A slot made by GrowSlots_ holds a null pointer.   *)

NullIntervals == [null |-> TRUE, intervals |-> {}]

EmptyIntervals == [null |-> FALSE, intervals |-> {}]

Interval(rank, begin, end) == [rank |-> rank, begin |-> begin, end |-> end]

\* DisjointIntIntervals::Insert succeeds iff the interval meets no interval
\* already recorded for the same rank.
CanInsert(d, iv) ==
  \A old \in d.intervals :
    old.rank # iv.rank \/ old.end <= iv.begin \/ iv.end <= old.begin

Insert(d, iv) == [d EXCEPT !.intervals = @ \cup {iv}]

-----------------------------------------------------------------------------
(* The queue as a value: one field per data member.                        *)

State ==
  [assigned_work_ |-> assigned_work_,
   checked_out_query_subtables_ |-> checked_out_query_subtables_,
   num_exported_query_subtables_ |-> num_exported_query_subtables_,
   num_imported_query_subtables_ |-> num_imported_query_subtables_,
   num_remaining_tasks_ |-> num_remaining_tasks_,
   num_threads_ |-> num_threads_,
   query_subtables_ |-> query_subtables_,
   remaining_work_for_query_subtables_ |-> remaining_work_for_query_subtables_,
   table_exchange_ |-> table_exchange_,
   tasks_ |-> tasks_,
   remaining_global_computation_ |-> remaining_global_computation_,
   remaining_local_computation_ |-> remaining_local_computation_,
   aborted |-> aborted]

\* A dereference of a null intrusive_ptr: BOOST_ASSERT aborts, and without
\* assertions the read of address 0 faults.  Either way the process is gone.
Abort(s) == [s EXCEPT !.aborted = TRUE]

\* v with element i overwritten by the last element and the last removed.
SwapWithLastAndPop(v, i) ==
  [k \in 1 .. (Len(v) - 1) |-> IF k = i THEN v[Len(v)] ELSE v[k]]

\* What the exchange has been asked: net LockCache units per cache id and
\* the queued flush requests.  The completed work it is told to route goes
\* to the peers and leaves no trace in this process.
LockCache(s, cache_id, num_times) ==
  [s EXCEPT !.table_exchange_.cache_locks[cache_id] = @ + num_times]

QueueFlushRequest(s, t) ==
  [s EXCEPT !.table_exchange_.flush_requests = Append(@, subtable_id(t))]

ExchangePushCompletedComputation(s, quantity) == s

\* GrowSlots_: resize() leaves a null assigned-work pointer and a zero
\* remaining work; the subtable and the task queue are new and empty.
GrowSlots_(s) ==
  [s EXCEPT
     !.assigned_work_ = Append(@, NullIntervals),
     !.query_subtables_ = Append(@, NullSubTable),
     !.remaining_work_for_query_subtables_ = Append(@, 0),
     !.tasks_ = Append(@, <<>>)]

\* A faulty Evict_ that erases the slot and moves the later slots down.
EvictShifting_(s, probe_index) ==
  [s EXCEPT
     !.assigned_work_ = SubSeq(@, 1, probe_index - 1) \o SubSeq(@, probe_index + 1, Len(@)),
     !.query_subtables_ = SubSeq(@, 1, probe_index - 1) \o SubSeq(@, probe_index + 1, Len(@)),
     !.remaining_work_for_query_subtables_ =
        SubSeq(@, 1, probe_index - 1) \o SubSeq(@, probe_index + 1, Len(@)),
     !.tasks_ = SubSeq(@, 1, probe_index - 1) \o SubSeq(@, probe_index + 1, Len(@))]

\* A faulty Evict_ that forgets remaining_work_for_query_subtables_; the
\* equal length of the four vectors depends on Evict_ treating all four.
EvictThreeVectors_(s, probe_index) ==
  [s EXCEPT
     !.assigned_work_ = SwapWithLastAndPop(@, probe_index),
     !.query_subtables_ = SwapWithLastAndPop(@, probe_index),
     !.tasks_ = SwapWithLastAndPop(@, probe_index)]

\* Evict_
Evict_(s, probe_index) ==
  [s EXCEPT
     !.assigned_work_ = SwapWithLastAndPop(@, probe_index),
     !.query_subtables_ = SwapWithLastAndPop(@, probe_index),
     !.remaining_work_for_query_subtables_ = SwapWithLastAndPop(@, probe_index),
     !.tasks_ = SwapWithLastAndPop(@, probe_index)]

\* A faulty Flush_ that leaves num_imported_query_subtables_ alone.
FlushUncounted_(s, probe_index) ==
  Evict_(QueueFlushRequest(s, s.query_subtables_[probe_index]), probe_index)

\* Flush_
Flush_(s, probe_index) ==
  LET queued == QueueFlushRequest(s, s.query_subtables_[probe_index])
      counted == [queued EXCEPT !.num_imported_query_subtables_ = @ - 1]
  IN Evict_(counted, probe_index)

\* A faulty PushTask that does not count the task it pushes.
PushTaskUncounted(s, push_index, reference_subtable) ==
  LET q == s.query_subtables_[push_index]
      new_task == Task(q, reference_subtable, Priority2(q, reference_subtable))
  IN [s EXCEPT
        !.tasks_[push_index] = HeapPush(@, new_task),
        !.remaining_local_computation_ = UAdd(@, new_task.work)]

\* PushTask
PushTask(s, push_index, reference_subtable) ==
  LET q == s.query_subtables_[push_index]
      new_task == Task(q, reference_subtable, Priority2(q, reference_subtable))
  IN [s EXCEPT
        !.tasks_[push_index] = HeapPush(@, new_task),
        !.num_remaining_tasks_ = @ + 1,
        !.remaining_local_computation_ = UAdd(@, new_task.work)]

\* PushNewQueue: the state after the call; the value returned is the index
\* of the new last slot, Len(tasks_).
PushNewQueue(s, originating_rank_in, query_subtable_in) ==
  LET grown == GrowSlots_(s)
      last == Len(grown.query_subtables_)
  IN [grown EXCEPT
        !.query_subtables_[last] =
           [query_subtable_in EXCEPT !.originating_rank = originating_rank_in],
        !.remaining_work_for_query_subtables_[last] = 0,
        !.num_imported_query_subtables_ = @ + 1]

-----------------------------------------------------------------------------
(* QuerySubTableLock: a checked-out query subtable.  A list iterator is    *)
(* the address of its node; a new node takes the lowest address that no    *)
(* node of the list has.                                                   *)

Nodes(s) ==
  {s.checked_out_query_subtables_[k].node :
     k \in 1 .. Len(s.checked_out_query_subtables_)}

NewNode(s) == CHOOSE n \in 0 .. Cardinality(Nodes(s)) : n \notin Nodes(s)

\* Position in the list of the node an iterator points to; 0 if none.
PositionOf(s, it) ==
  LET at == {k \in 1 .. Len(s.checked_out_query_subtables_) :
               s.checked_out_query_subtables_[k].node = it}
  IN IF at = {} THEN 0 ELSE CHOOSE k \in at : TRUE

Erase(list, k) == SubSeq(list, 1, k - 1) \o SubSeq(list, k + 1, Len(list))

\* A faulty CheckOut_ that fills the front node and leaves the slot among
\* the active ones.
CheckOutKeepsSlot_(s, probe_index, remote_mpi_rank_in) ==
  [s EXCEPT !.checked_out_query_subtables_[1] =
     [@ EXCEPT
        !.query_subtable_ = s.query_subtables_[probe_index],
        !.task_ = s.tasks_[probe_index],
        !.assigned_work_ = s.assigned_work_[probe_index],
        !.remaining_work_for_query_subtable_ =
           s.remaining_work_for_query_subtables_[probe_index],
        !.locked_mpi_rank_ = remote_mpi_rank_in]]

\* CheckOut_: the front node takes the slot's four records and the rank
\* that locks it, and the slot leaves the vectors.
CheckOut_(s, probe_index, remote_mpi_rank_in) ==
  LET taken == [s EXCEPT !.checked_out_query_subtables_[1] =
                  [@ EXCEPT
                     !.query_subtable_ = s.query_subtables_[probe_index],
                     !.task_ = s.tasks_[probe_index],
                     !.assigned_work_ = s.assigned_work_[probe_index],
                     !.remaining_work_for_query_subtable_ =
                        s.remaining_work_for_query_subtables_[probe_index],
                     !.locked_mpi_rank_ = remote_mpi_rank_in]]
  IN Evict_(taken, probe_index)

\* Return_: the records go back to the end of the vectors.
Return_(s, lock) ==
  [s EXCEPT
     !.assigned_work_ = Append(@, lock.assigned_work_),
     !.query_subtables_ = Append(@, lock.query_subtable_),
     !.remaining_work_for_query_subtables_ =
        Append(@, lock.remaining_work_for_query_subtable_),
     !.tasks_ = Append(@, lock.task_),
     !.num_exported_query_subtables_ = @ - 1]

\* A new QuerySubTableLock.
NewLock(node) ==
  [node |-> node, query_subtable_ |-> NullSubTable, task_ |-> <<>>,
   assigned_work_ |-> NullIntervals,
   remaining_work_for_query_subtable_ |-> 0, locked_mpi_rank_ |-> -1]

\* A faulty LockQuerySubTable that links the new node at the back of the
\* list and checks the slot out into it.
LockQuerySubTableAtBack(s, probe_index, remote_mpi_rank_in) ==
  LET node == NewNode(s)
      pushed == [s EXCEPT !.checked_out_query_subtables_ = <<NewLock(node)>> \o @]
      taken == CheckOut_(pushed, probe_index, remote_mpi_rank_in)
  IN [taken EXCEPT !.checked_out_query_subtables_ = Tail(@) \o <<Head(@)>>]

\* LockQuerySubTable: the state after the call; the iterator returned points
\* to the front node.
LockQuerySubTable(s, probe_index, remote_mpi_rank_in) ==
  LET pushed == [s EXCEPT !.checked_out_query_subtables_ =
                   <<NewLock(NewNode(s))>> \o @]
  IN CheckOut_(pushed, probe_index, remote_mpi_rank_in)

\* A faulty ReturnQuerySubTable that returns and erases the front node
\* of the list, whatever the iterator points to.
ReturnFrontQuerySubTable(s, query_subtable_lock) ==
  IF PositionOf(s, query_subtable_lock) = 0 THEN Abort(s)
  ELSE LET returned == Return_(s, s.checked_out_query_subtables_[1])
       IN [returned EXCEPT !.checked_out_query_subtables_ = Erase(@, 1)]

\* ReturnQuerySubTable; erasing through an iterator whose node is gone
\* dereferences freed memory.
ReturnQuerySubTable(s, query_subtable_lock) ==
  LET k == PositionOf(s, query_subtable_lock) IN
  IF k = 0 THEN Abort(s)
  ELSE LET returned == Return_(s, s.checked_out_query_subtables_[k])
       IN [returned EXCEPT !.checked_out_query_subtables_ = Erase(@, k)]

-----------------------------------------------------------------------------
(* Dequeueing, splitting and redistribution.                               *)

NoTask ==
  [query_subtable |-> NullSubTable, reference_subtable |-> NullSubTable,
   priority |-> 0, work |-> 0]

\* The caller's out-parameters before a call: task_out->second < 0, and no
\* iterator.  second holds the source's 0-based index.
NoOutput == [first |-> NoTask, second |-> -1, lock |-> -1]

\* A faulty single-slot DequeueTask that evicts an empty slot of this
\* process without looking at its remaining work.
DequeueTaskAtEvictsUnfinished(s, probe_index, out, want_lock) ==
  IF Len(s.tasks_[probe_index]) > 0
  THEN LET first == HeapTop(s.tasks_[probe_index])
           popped == [s EXCEPT
                        !.tasks_[probe_index] = HeapPop(@),
                        !.num_remaining_tasks_ = @ - 1,
                        !.remaining_local_computation_ = USub(@, first.work)]
       IN IF want_lock
          THEN [s |-> LockQuerySubTable(popped, probe_index, world.rank),
                out |-> [first |-> first, second |-> probe_index - 1,
                         lock |-> NewNode(popped)],
                ret |-> FALSE]
          ELSE [s |-> popped,
                out |-> [out EXCEPT !.first = first, !.second = probe_index - 1],
                ret |-> FALSE]
  ELSE IF s.query_subtables_[probe_index].rank = world.rank
       THEN [s |-> Evict_(s, probe_index), out |-> out, ret |-> TRUE]
       ELSE [s |-> Flush_(s, probe_index), out |-> out, ret |-> TRUE]

\* DequeueTask(world, probe_index, task_out, checked_out_query_subtable):
\* s is the state after the call, out the out-parameters, ret the value
\* returned.  want_lock says that checked_out_query_subtable is not NULL.
DequeueTaskAt(s, probe_index, out, want_lock) ==
  IF Len(s.tasks_[probe_index]) > 0
  THEN LET first == HeapTop(s.tasks_[probe_index])
           popped == [s EXCEPT
                        !.tasks_[probe_index] = HeapPop(@),
                        !.num_remaining_tasks_ = @ - 1,
                        !.remaining_local_computation_ = USub(@, first.work)]
       IN IF want_lock
          THEN [s |-> LockQuerySubTable(popped, probe_index, world.rank),
                out |-> [first |-> first, second |-> probe_index - 1,
                         lock |-> NewNode(popped)],
                ret |-> FALSE]
          ELSE [s |-> popped,
                out |-> [out EXCEPT !.first = first, !.second = probe_index - 1],
                ret |-> FALSE]
  ELSE IF s.query_subtables_[probe_index].rank = world.rank
       THEN IF s.remaining_work_for_query_subtables_[probe_index] = 0
            THEN [s |-> Evict_(s, probe_index), out |-> out, ret |-> TRUE]
            ELSE [s |-> s, out |-> out, ret |-> FALSE]
       ELSE [s |-> Flush_(s, probe_index), out |-> out, ret |-> TRUE]

RECURSIVE DrainTasks(_, _, _)
\* The loop of split_subtree_ that empties the slot's queue into prev_tasks.
DrainTasks(s, subtree_index, prev_tasks) ==
  IF Len(s.tasks_[subtree_index]) > 0
  THEN LET r == DequeueTaskAt(s, subtree_index, NoOutput, FALSE) IN
       DrainTasks(r.s, subtree_index, Append(prev_tasks, r.out.first))
  ELSE [s |-> s, prev_tasks |-> prev_tasks]

RECURSIVE PushSplitTasks(_, _, _, _)
\* The loop of split_subtree_ that pushes each former task on both halves
\* and locks its cache block once.
PushSplitTasks(s, subtree_index, prev_tasks, i) ==
  IF i > Len(prev_tasks) THEN s
  ELSE LET ref == prev_tasks[i].reference_subtable
           onLeft == PushTask(s, subtree_index, ref)
           onRight == PushTask(onLeft, Len(onLeft.query_subtables_), ref)
           locked == LockCache(onRight, ref.cache_block_id, 1)
       IN PushSplitTasks(locked, subtree_index, prev_tasks, i + 1)

\* A faulty split_subtree_ whose new slot starts with an empty assigned work
\* instead of a copy of the split slot's.
SplitWithoutCopy_(s, subtree_index) ==
  LET prev_qnode == start_node(s.query_subtables_[subtree_index])
      leftHalf == [s EXCEPT !.query_subtables_[subtree_index] =
                     set_start_node(@, left(prev_qnode))]
      grown == [leftHalf EXCEPT !.query_subtables_ =
                  Append(@, set_start_node(leftHalf.query_subtables_[subtree_index],
                                           right(prev_qnode)))]
      drained == DrainTasks(grown, subtree_index, <<>>)
      slots == [drained.s EXCEPT
                  !.tasks_ = Append(@, <<>>),
                  !.assigned_work_ = Append(@, EmptyIntervals),
                  !.remaining_work_for_query_subtables_ =
                     Append(@, @[subtree_index])]
  IN IF s.assigned_work_[subtree_index].null THEN Abort(s)
     ELSE PushSplitTasks(slots, subtree_index, drained.prev_tasks, 1)

\* split_subtree_.  The copy constructor reads *(assigned_work_[subtree_index]),
\* which is a null pointer in a slot made by PushNewQueue.
split_subtree_(s, subtree_index) ==
  LET prev_qnode == start_node(s.query_subtables_[subtree_index])
      leftHalf == [s EXCEPT !.query_subtables_[subtree_index] =
                     set_start_node(@, left(prev_qnode))]
      grown == [leftHalf EXCEPT !.query_subtables_ =
                  Append(@, set_start_node(leftHalf.query_subtables_[subtree_index],
                                           right(prev_qnode)))]
      drained == DrainTasks(grown, subtree_index, <<>>)
      slots == [drained.s EXCEPT
                  !.tasks_ = Append(@, <<>>),
                  !.assigned_work_ = Append(@, @[subtree_index]),
                  !.remaining_work_for_query_subtables_ =
                     Append(@, @[subtree_index])]
  IN IF s.assigned_work_[subtree_index].null THEN Abort(s)
     ELSE PushSplitTasks(slots, subtree_index, drained.prev_tasks, 1)

RECURSIVE FindSplitIndexAnyHeap(_, _, _, _)
\* A faulty loop of RedistributeAmongCores_ that does not ask whether the
\* slot has tasks.
FindSplitIndexAnyHeap(s, i, split_index_query_size, split_index) ==
  IF i > Len(s.query_subtables_) THEN split_index
  ELSE IF /\ ~is_leaf(start_node(s.query_subtables_[i]))
          /\ split_index_query_size < s.query_subtables_[i].count
       THEN FindSplitIndexAnyHeap(s, i + 1, s.query_subtables_[i].count, i)
       ELSE FindSplitIndexAnyHeap(s, i + 1, split_index_query_size, split_index)

RECURSIVE FindSplitIndex(_, _, _, _)
\* The loop of RedistributeAmongCores_; split_index is 0 for the source's -1.
FindSplitIndex(s, i, split_index_query_size, split_index) ==
  IF i > Len(s.query_subtables_) THEN split_index
  ELSE IF /\ ~is_leaf(start_node(s.query_subtables_[i]))
          /\ Len(s.tasks_[i]) > 0
          /\ split_index_query_size < s.query_subtables_[i].count
       THEN FindSplitIndex(s, i + 1, s.query_subtables_[i].count, i)
       ELSE FindSplitIndex(s, i + 1, split_index_query_size, split_index)

\* RedistributeAmongCores_
RedistributeAmongCores_(s) ==
  LET split_index == FindSplitIndex(s, 1, 0, 0) IN
  IF split_index >= 1 THEN split_subtree_(s, split_index) ELSE s

RECURSIVE ScanSlotsSkipping(_, _, _, _)
\* A faulty loop that goes on to the next index after a cleanup, and so
\* never looks at the slot that Evict_ moved into the cleaned position.
ScanSlotsSkipping(s, probe_index, out, want_lock) ==
  IF s.aborted \/ out.second >= 0 \/ probe_index > Len(s.tasks_)
  THEN [s |-> s, out |-> out]
  ELSE LET r == DequeueTaskAt(s, probe_index, out, want_lock) IN
       ScanSlotsSkipping(r.s, probe_index + 1, r.out, want_lock)

RECURSIVE ScanSlots(_, _, _, _)
\* The loop of the scanning DequeueTask.
ScanSlots(s, probe_index, out, want_lock) ==
  IF s.aborted \/ out.second >= 0 \/ probe_index > Len(s.tasks_)
  THEN [s |-> s, out |-> out]
  ELSE LET r == DequeueTaskAt(s, probe_index, out, want_lock) IN
       ScanSlots(r.s, IF r.ret THEN probe_index ELSE probe_index + 1,
                 r.out, want_lock)

\* DequeueTask(world, thread_id, metric_in, task_out,
\* checked_out_query_subtable).
DequeueTask(s, want_lock) ==
  LET redistributed == IF Len(s.tasks_) < s.num_threads_
                       THEN RedistributeAmongCores_(s) ELSE s
  IN ScanSlots(redistributed, 1, NoOutput, want_lock)

\* A faulty pop that leaves remaining_local_computation_ alone.
PopKeepsWork(s, probe_index) ==
  [s EXCEPT
     !.tasks_[probe_index] = HeapPop(@),
     !.num_remaining_tasks_ = @ - 1]

\* pop
pop(s, probe_index) ==
  [s EXCEPT
     !.remaining_local_computation_ =
        USub(@, HeapTop(s.tasks_[probe_index]).work),
     !.tasks_[probe_index] = HeapPop(@),
     !.num_remaining_tasks_ = @ - 1]

-----------------------------------------------------------------------------
(* CheckIntegrity.                                                         *)

RECURSIVE CheckTasks(_, _, _)
\* The inner loop of CheckIntegrity over the tasks of one queue, from the
\* j-th on: the flag once the loop ends.
CheckTasks(queue, j, destruct_id) ==
  IF j > Len(queue) THEN FALSE
  ELSE LET id == subtable_id(queue[j].reference_subtable) IN
       IF id[1] = destruct_id[1] /\ id[2] = destruct_id[2] /\ id[3] = destruct_id[3]
       THEN TRUE
       ELSE CheckTasks(queue, j + 1, destruct_id)

RECURSIVE CheckSlots(_, _, _)
\* The loop of CheckIntegrity over the active slots, from slot i on.
CheckSlots(s, i, destruct_id) ==
  IF i > Len(s.query_subtables_) THEN FALSE
  ELSE IF CheckTasks(s.tasks_[i], 1, destruct_id) THEN TRUE
       ELSE CheckSlots(s, i + 1, destruct_id)

RECURSIVE CheckLocks(_, _, _)
\* The loop of CheckIntegrity over the checked-out list, from node k on.
CheckLocks(s, k, destruct_id) ==
  IF k > Len(s.checked_out_query_subtables_) THEN FALSE
  ELSE IF CheckTasks(s.checked_out_query_subtables_[k].task_, 1, destruct_id)
       THEN TRUE
       ELSE CheckLocks(s, k + 1, destruct_id)

\* A faulty CheckIntegrity that looks at the active slots only.
CheckIntegrityActiveOnly(s, destruct_id) == CheckSlots(s, 1, destruct_id)

\* CheckIntegrity: const, so the value returned is all there is.
CheckIntegrity(s, destruct_id) ==
  LET flag == CheckSlots(s, 1, destruct_id) IN
  IF flag THEN flag ELSE CheckLocks(s, 1, destruct_id)

-----------------------------------------------------------------------------
(* Synchronize, GenerateTasks, PrepareExtraTaskList and the counters.      *)

RECURSIVE FirstIncluding(_, _, _)
\* The first node of the list, from the front, whose query subtable
\* includes the received one; 0 if none does.
FirstIncluding(list, received, k) ==
  IF k > Len(list) THEN 0
  ELSE IF includes(list[k].query_subtable_, received) THEN k
       ELSE FirstIncluding(list, received, k + 1)

\* A faulty Synchronize that puts the subtable back in the vectors and
\* leaves its node in the list.
SynchronizeWithoutErase(s, received_query_subtable_in) ==
  LET k == FirstIncluding(s.checked_out_query_subtables_,
                          received_query_subtable_in, 1)
  IN IF k = 0 THEN s
     ELSE LET it == s.checked_out_query_subtables_[k] IN
          IF subtable_id(received_query_subtable_in) = subtable_id(it.query_subtable_)
          THEN [s EXCEPT
                  !.assigned_work_ = Append(@, it.assigned_work_),
                  !.query_subtables_ = Append(@, it.query_subtable_),
                  !.remaining_work_for_query_subtables_ =
                     Append(@, it.remaining_work_for_query_subtable_),
                  !.tasks_ = Append(@, it.task_),
                  !.num_exported_query_subtables_ = @ - 1]
          ELSE s

\* A faulty Synchronize that puts the subtable back and leaves
\* num_exported_query_subtables_ as it was.
SynchronizeKeepsExported(s, received_query_subtable_in) ==
  LET k == FirstIncluding(s.checked_out_query_subtables_,
                          received_query_subtable_in, 1)
  IN IF k = 0 THEN s
     ELSE LET it == s.checked_out_query_subtables_[k] IN
          IF subtable_id(received_query_subtable_in) = subtable_id(it.query_subtable_)
          THEN [s EXCEPT
                  !.assigned_work_ = Append(@, it.assigned_work_),
                  !.query_subtables_ = Append(@, it.query_subtable_),
                  !.remaining_work_for_query_subtables_ =
                     Append(@, it.remaining_work_for_query_subtable_),
                  !.tasks_ = Append(@, it.task_),
                  !.checked_out_query_subtables_ = Erase(@, k)]
          ELSE s

\* SubTable::Copy: the points and results of the received subtable are
\* taken over; the table, the start node, the origin and the cache block
\* of the subtable copied into stay.  The points are not part of a SubTable
\* here.
Copy(t, received) == t

\* A faulty Synchronize that puts the checked-out subtable back whenever it
\* includes the received one, a part of it as well.
SynchronizeReturnsPartial(s, received_query_subtable_in) ==
  LET k == FirstIncluding(s.checked_out_query_subtables_,
                          received_query_subtable_in, 1)
  IN IF k = 0 THEN s
     ELSE LET it == s.checked_out_query_subtables_[k] IN
          [s EXCEPT
             !.assigned_work_ = Append(@, it.assigned_work_),
             !.query_subtables_ = Append(@, it.query_subtable_),
             !.remaining_work_for_query_subtables_ =
                Append(@, it.remaining_work_for_query_subtable_),
             !.tasks_ = Append(@, it.task_),
             !.checked_out_query_subtables_ = Erase(@, k),
             !.num_exported_query_subtables_ = @ - 1]

\* Synchronize.  Copy takes over the received subtable's data and leaves
\* the identity of the checked-out subtable as it is.
Synchronize(s, received_query_subtable_in) ==
  LET k == FirstIncluding(s.checked_out_query_subtables_,
                          received_query_subtable_in, 1)
  IN IF k = 0 THEN s
     ELSE LET copied == [s EXCEPT !.checked_out_query_subtables_[k].query_subtable_ =
                           Copy(@, received_query_subtable_in)]
              it == copied.checked_out_query_subtables_[k]
          IN IF subtable_id(received_query_subtable_in) = subtable_id(it.query_subtable_)
             THEN [copied EXCEPT
                     !.assigned_work_ = Append(@, it.assigned_work_),
                     !.query_subtables_ = Append(@, it.query_subtable_),
                     !.remaining_work_for_query_subtables_ =
                        Append(@, it.remaining_work_for_query_subtable_),
                     !.tasks_ = Append(@, it.task_),
                     !.checked_out_query_subtables_ = Erase(@, k),
                     !.num_exported_query_subtables_ = @ - 1]
             ELSE copied

\* The reference subtable of a received tuple: the cached one, or an alias
\* of the local table's node carrying the tuple's cache id.
FrontierReferenceSubTable(id) ==
  IF FindSubTable(id[4]) = NullSubTable
  THEN SubTable(world.rank, FindByBeginCount(id[2], id[3]), world.rank, id[4])
  ELSE FindSubTable(id[4])

ReferenceGrid(id) ==
  Interval(FrontierReferenceSubTable(id).rank, id[2], id[2] + id[3])

\* A faulty loop body that pushes the task whether or not Insert succeeds.
GenerateForSlotUnguarded(s, j, id) ==
  IF s.query_subtables_[j].rank = world.rank
  THEN LockCache(
         PushTask([s EXCEPT !.assigned_work_[j] = Insert(@, ReferenceGrid(id))],
                  j, FrontierReferenceSubTable(id)),
         id[4], 1)
  ELSE s

\* A faulty loop body that locks the cache block twice for one task.
GenerateForSlotTwoLocks(s, j, id) ==
  IF /\ s.query_subtables_[j].rank = world.rank
     /\ CanInsert(s.assigned_work_[j], ReferenceGrid(id))
  THEN LockCache(
         PushTask([s EXCEPT !.assigned_work_[j] = Insert(@, ReferenceGrid(id))],
                  j, FrontierReferenceSubTable(id)),
         id[4], 2)
  ELSE s

\* The body of GenerateTasks' loop over the active slots, for slot j.
GenerateForSlot(s, j, id) ==
  IF /\ s.query_subtables_[j].rank = world.rank
     /\ CanInsert(s.assigned_work_[j], ReferenceGrid(id))
  THEN LockCache(
         PushTask([s EXCEPT !.assigned_work_[j] = Insert(@, ReferenceGrid(id))],
                  j, FrontierReferenceSubTable(id)),
         id[4], 1)
  ELSE s

\* QuerySubTableLock::PushTask_: the task goes on the lock's own queue, with
\* the priority formula of PushTask, and the queue's counters grow.
PushTask_(s, k, reference_subtable) ==
  LET q == s.checked_out_query_subtables_[k].query_subtable_
      new_task == Task(q, reference_subtable, Priority2(q, reference_subtable))
  IN [s EXCEPT
        !.checked_out_query_subtables_[k].task_ = HeapPush(@, new_task),
        !.num_remaining_tasks_ = @ + 1,
        !.remaining_local_computation_ = UAdd(@, new_task.work)]

\* The body of GenerateTasks' loop over the checked-out subtables, for the
\* k-th node.  QuerySubTableLock::Insert_ hands the interval to the lock's
\* assigned work, a null pointer if the subtable came through PushNewQueue.
GenerateForLock(s, k, id) ==
  LET it == s.checked_out_query_subtables_[k] IN
  IF it.assigned_work_.null THEN Abort(s)
  ELSE IF CanInsert(it.assigned_work_, ReferenceGrid(id))
       THEN LockCache(
              PushTask_([s EXCEPT !.checked_out_query_subtables_[k].assigned_work_ =
                           Insert(@, ReferenceGrid(id))],
                        k, FrontierReferenceSubTable(id)),
              id[4], 1)
       ELSE s

RECURSIVE GenerateForSlots(_, _, _)
GenerateForSlots(s, j, id) ==
  IF j > Len(s.query_subtables_) THEN s
  ELSE GenerateForSlots(GenerateForSlot(s, j, id), j + 1, id)

RECURSIVE GenerateForLocks(_, _, _)
GenerateForLocks(s, k, id) ==
  IF s.aborted \/ k > Len(s.checked_out_query_subtables_) THEN s
  ELSE GenerateForLocks(GenerateForLock(s, k, id), k + 1, id)

RECURSIVE GenerateTasksFrom(_, _, _)
GenerateTasksFrom(s, received_subtable_ids, i) ==
  IF s.aborted \/ i > Len(received_subtable_ids) THEN s
  ELSE GenerateTasksFrom(
         GenerateForLocks(GenerateForSlots(s, 1, received_subtable_ids[i]),
                          1, received_subtable_ids[i]),
         received_subtable_ids, i + 1)

\* GenerateTasks
GenerateTasks(s, received_subtable_ids) ==
  GenerateTasksFrom(s, received_subtable_ids, 1)

RECURSIVE SumOfCounts(_)
SumOfCounts(h) ==
  IF h = <<>> THEN 0 ELSE h[1].reference_subtable.count + SumOfCounts(Tail(h))

\* The points a slot adds to a task list: its query points and the
\* reference points of its tasks.
PointsOfSlot(s, i) == s.query_subtables_[i].count + SumOfCounts(s.tasks_[i])

RECURSIVE ExtraTaskLoopSkipping(_, _, _, _, _)
\* A faulty loop that goes on to the next index after a slot was taken,
\* passing over the slot that took its place.
ExtraTaskLoopSkipping(s, i, neighbor_rank_in, remaining_extra_points_to_hold, owned) ==
  IF ~(remaining_extra_points_to_hold > 0 /\ i <= Len(s.query_subtables_))
  THEN s
  ELSE IF /\ subtable_id(s.query_subtables_[i]) \notin owned
          /\ PointsOfSlot(s, i) <= remaining_extra_points_to_hold
       THEN ExtraTaskLoopSkipping(
              [LockQuerySubTable(s, i, neighbor_rank_in) EXCEPT
                 !.num_exported_query_subtables_ = @ + 1],
              i + 1, neighbor_rank_in,
              remaining_extra_points_to_hold - PointsOfSlot(s, i), owned)
       ELSE ExtraTaskLoopSkipping(s, i + 1, neighbor_rank_in,
                                  remaining_extra_points_to_hold, owned)

RECURSIVE ExtraTaskLoop(_, _, _, _, _)
\* The loop of PrepareExtraTaskList.  DistributedDualtreeTaskList::push_back
\* takes slot i if its points fit in what the neighbor can still hold, and
\* then locks the slot for the neighbor.
ExtraTaskLoop(s, i, neighbor_rank_in, remaining_extra_points_to_hold, owned) ==
  IF ~(remaining_extra_points_to_hold > 0 /\ i <= Len(s.query_subtables_))
  THEN s
  ELSE IF /\ subtable_id(s.query_subtables_[i]) \notin owned
          /\ PointsOfSlot(s, i) <= remaining_extra_points_to_hold
       THEN ExtraTaskLoop(
              [LockQuerySubTable(s, i, neighbor_rank_in) EXCEPT
                 !.num_exported_query_subtables_ = @ + 1],
              i, neighbor_rank_in,
              remaining_extra_points_to_hold - PointsOfSlot(s, i), owned)
       ELSE ExtraTaskLoop(s, i + 1, neighbor_rank_in,
                          remaining_extra_points_to_hold, owned)

\* PrepareExtraTaskList; extra_points_to_hold_in is
\* neighbor_remaining_extra_points_to_hold_in, and owned is the set of
\* subtable ids for which the neighbor's load balance request answers
\* query_subtable_is_owned.
PrepareExtraTaskList(s, neighbor_rank_in, extra_points_to_hold_in, owned) ==
  ExtraTaskLoop(s, 1, neighbor_rank_in, extra_points_to_hold_in, owned)

\* The faulty variant of push_completed_computation that leaves
\* remaining_global_computation_ as it was.
PushCompletedKeepsGlobal(s, reference_count_in, quantity_in) ==
  [ExchangePushCompletedComputation(s, quantity_in) EXCEPT
     !.remaining_work_for_query_subtables_ =
        [i \in 1 .. Len(@) |-> USub(@[i], reference_count_in)]]

\* push_completed_computation for all the active query subtables.
push_completed_computation(s, reference_count_in, quantity_in) ==
  [ExchangePushCompletedComputation(s, quantity_in) EXCEPT
     !.remaining_global_computation_ = USub(@, quantity_in),
     !.remaining_work_for_query_subtables_ =
        [i \in 1 .. Len(@) |-> USub(@[i], reference_count_in)]]

\* A faulty scoped form that lowers the remaining work of the active query
\* subtables as well.
PushCompletedLockAllSlots(s, reference_count_in, quantity_in, lock) ==
  LET k == PositionOf(s, lock) IN
  IF k = 0 THEN Abort(s)
  ELSE [ExchangePushCompletedComputation(s, quantity_in) EXCEPT
          !.remaining_global_computation_ = USub(@, quantity_in),
          !.remaining_work_for_query_subtables_ =
             [i \in 1 .. Len(@) |-> USub(@[i], reference_count_in)],
          !.checked_out_query_subtables_[k].remaining_work_for_query_subtable_ =
             USub(@, reference_count_in)]

\* push_completed_computation for one checked-out query subtable; lock is
\* the iterator query_subtable_lock.
push_completed_computation_lock(s, reference_count_in, quantity_in, lock) ==
  LET k == PositionOf(s, lock) IN
  IF k = 0 THEN Abort(s)
  ELSE [ExchangePushCompletedComputation(s, quantity_in) EXCEPT
          !.remaining_global_computation_ = USub(@, quantity_in),
          !.checked_out_query_subtables_[k].remaining_work_for_query_subtable_ =
             USub(@, reference_count_in)]

\* ReleaseCache
ReleaseCache(s, cache_id, num_times) ==
  [s EXCEPT !.table_exchange_.cache_locks[cache_id] = @ - num_times]

\* SendReceive: the exchange sends the queued flush requests.
SendReceive(s) ==
  [s EXCEPT !.table_exchange_.flush_requests = <<>>]

-----------------------------------------------------------------------------
(* The initial state and the steps.                                        *)

\* Largest number of load balancing turns (a task list received from a
\* peer, or query subtables handed to a neighbor) in one run.
MaxLoadBalancingTurns == 1

Commit(s) ==
  /\ UNCHANGED lock_on_dequeue
  /\ aborted' = s.aborted
  /\ IF s.aborted
     THEN UNCHANGED <<assigned_work_, checked_out_query_subtables_,
                      num_exported_query_subtables_,
                      num_imported_query_subtables_, num_remaining_tasks_,
                      num_threads_, query_subtables_,
                      remaining_work_for_query_subtables_, table_exchange_,
                      tasks_, remaining_global_computation_,
                      remaining_local_computation_>>
     ELSE /\ assigned_work_' = s.assigned_work_
          /\ checked_out_query_subtables_' = s.checked_out_query_subtables_
          /\ num_exported_query_subtables_' = s.num_exported_query_subtables_
          /\ num_imported_query_subtables_' = s.num_imported_query_subtables_
          /\ num_remaining_tasks_' = s.num_remaining_tasks_
          /\ num_threads_' = s.num_threads_
          /\ query_subtables_' = s.query_subtables_
          /\ remaining_work_for_query_subtables_' =
               s.remaining_work_for_query_subtables_
          /\ table_exchange_' = s.table_exchange_
          /\ tasks_' = s.tasks_
          /\ remaining_global_computation_' = s.remaining_global_computation_
          /\ remaining_local_computation_' = s.remaining_local_computation_

IdleThread == [pc |-> "idle", task |-> NoTask, second |-> -1, lock |-> -1]

\* The constructor followed by Init(world, ..., num_threads_in): the
\* frontier of the local query tree, an empty queue and empty assigned work
\* per slot, and the total number of reference points as remaining work.
Init ==
  \E num_threads_in \in 1 .. MaxThreads :
    \E frontier \in {f \in Frontiers(RootNode) : Len(f) <= 4 * num_threads_in} :
      /\ num_threads_ = num_threads_in
      /\ query_subtables_ =
           [i \in 1 .. Len(frontier) |->
              SubTable(world.rank, frontier[i], world.rank, -1)]
      /\ tasks_ = [i \in 1 .. Len(frontier) |-> <<>>]
      /\ assigned_work_ = [i \in 1 .. Len(frontier) |-> EmptyIntervals]
      /\ remaining_work_for_query_subtables_ =
           [i \in 1 .. Len(frontier) |-> world.size * NumPoints]
      /\ checked_out_query_subtables_ = <<>>
      /\ num_exported_query_subtables_ = 0
      /\ num_imported_query_subtables_ = 0
      /\ num_remaining_tasks_ = 0
      /\ remaining_global_computation_ =
           (world.size * NumPoints) * (world.size * NumPoints)
      /\ remaining_local_computation_ = 0
      /\ table_exchange_ = [cache_locks |-> [c \in CacheIds |-> 0],
                            flush_requests |-> <<>>]
      /\ aborted = FALSE
      /\ threads = [t \in 1 .. MaxThreads |-> IdleThread]
      /\ lock_on_dequeue \in BOOLEAN
      /\ load_balancing_turns = 0
      /\ processed = {}
      /\ replayed = FALSE
      /\ peer = [remaining_global_computation_ |->
                   (world.size * NumPoints) * (world.size * NumPoints),
                 work |-> [r \in 1 .. world.size |-> NumPoints * NumPoints]]
      /\ broadcast = [to_peer |-> <<>>, to_here |-> <<>>]

Workers == 1 .. num_threads_

RECURSIVE SumOfWork(_)
SumOfWork(h) == IF h = <<>> THEN 0 ELSE h[1].work + SumOfWork(Tail(h))

RECURSIVE SumOverSeq(_, _)
SumOverSeq(v, k) == IF k = 0 THEN 0 ELSE v[k] + SumOverSeq(v, k - 1)

\* The work of the tasks that are queued here or held by a worker that has
\* not reported it yet.
OutstandingWork ==
  SumOverSeq([i \in 1 .. Len(tasks_) |-> SumOfWork(tasks_[i])], Len(tasks_))
  + SumOverSeq([k \in 1 .. Len(checked_out_query_subtables_) |->
                  SumOfWork(checked_out_query_subtables_[k].task_)],
               Len(checked_out_query_subtables_))
  + SumOverSeq([t \in 1 .. MaxThreads |->
                  IF threads[t].pc \in {"release", "report"}
                  THEN threads[t].task.work ELSE 0], MaxThreads)

\* The query subtables held here, in a slot or checked out.
HeldQuerySubTables ==
  {query_subtables_[i] : i \in 1 .. Len(query_subtables_)}
  \cup {checked_out_query_subtables_[k].query_subtable_ :
          k \in 1 .. Len(checked_out_query_subtables_)}

Overlap(t, u) ==
  /\ t.rank = u.rank
  /\ t.begin < u.begin + u.count
  /\ u.begin < t.begin + t.count

\* The reference subtables that may arrive with an imported query subtable:
\* those of the exchange's cache.
CachedReferenceSubTables ==
  {FindSubTable(c) : c \in {c \in CacheIds : c >= 0}}

RECURSIVE PushImportedTasks(_, _, _, _)
\* For each reference subtable of a received task list: push_subtable with
\* one reference, which locks its cache block once, and PushTask.
PushImportedTasks(s, slot, refs, i) ==
  IF i > Len(refs) THEN s
  ELSE PushImportedTasks(
         PushTask(LockCache(s, refs[i].cache_block_id, 1), slot, refs[i]),
         slot, refs, i + 1)

\* The exchange delivers a task list of a peer: a query subtable that is
\* not held here, with the reference subtables of its tasks.
ReceiveTaskList(query_subtable_in, refs) ==
  /\ ~aborted
  /\ \A h \in HeldQuerySubTables : ~Overlap(h, query_subtable_in)
  /\ \A k \in 1 .. Len(table_exchange_.flush_requests) :
        table_exchange_.flush_requests[k][1] # query_subtable_in.rank
  /\ load_balancing_turns < MaxLoadBalancingTurns
  /\ load_balancing_turns' = load_balancing_turns + 1
  /\ OutstandingWork + SumOverSeq([i \in 1 .. Len(refs) |->
                                     query_subtable_in.count * refs[i].count],
                                  Len(refs))
       <= remaining_global_computation_
  /\ LET pushed == PushNewQueue(State, query_subtable_in.rank, query_subtable_in)
     IN Commit(PushImportedTasks(pushed, Len(pushed.tasks_), refs, 1))
  /\ UNCHANGED <<threads, processed, replayed, peer, broadcast>>

\* The exchange delivers reference subtables.
ReceiveReferenceSubTables(received_subtable_ids) ==
  /\ ~aborted
  /\ Commit(GenerateTasks(State, received_subtable_ids))
  /\ LET given == {received_subtable_ids[i] : i \in 1 .. Len(received_subtable_ids)}
         twice == {received_subtable_ids[i] :
                     i \in {i \in 1 .. Len(received_subtable_ids) :
                              \E j \in 1 .. (i - 1) :
                                received_subtable_ids[j] = received_subtable_ids[i]}}
     IN IF GenerateTasks(State, received_subtable_ids).aborted
        THEN UNCHANGED <<processed, replayed>>
        ELSE /\ processed' = processed \cup given
             /\ replayed' = (replayed \/ (given \cap processed) # {} \/ twice # {})
  /\ UNCHANGED <<threads, load_balancing_turns, peer, broadcast>>

\* A worker asks for a task, checking the query subtable out if the workers
\* of this run do.  A task whose reference subtable is an alias of the local
\* table is not released afterwards.  thread_id is not used by DequeueTask,
\* so of the idle workers it is the first that calls.
WorkerDequeue(t) ==
  /\ ~aborted
  /\ threads[t].pc = "idle"
  /\ \A u \in 1 .. (t - 1) : threads[u].pc # "idle"
  /\ LET r == DequeueTask(State, lock_on_dequeue) IN
       /\ Commit(r.s)
       /\ threads' =
            IF r.s.aborted \/ r.out.second < 0 THEN threads
            ELSE [threads EXCEPT ![t] =
                    [pc |-> IF FindSubTable(r.out.first.reference_subtable.cache_block_id)
                               = NullSubTable
                            THEN "report" ELSE "release",
                     task |-> r.out.first, second |-> r.out.second,
                     lock |-> r.out.lock]]
  /\ UNCHANGED <<load_balancing_turns, processed, replayed, peer, broadcast>>

\* The worker of a single-threaded run that checks nothing out may take the
\* top task of any slot by top and pop, without DequeueTask.
WorkerTopPop(t, probe_index) ==
  /\ ~aborted
  /\ threads[t].pc = "idle"
  /\ \A u \in 1 .. (t - 1) : threads[u].pc # "idle"
  /\ num_threads_ = 1
  /\ ~lock_on_dequeue
  /\ probe_index <= Len(tasks_)
  /\ Len(tasks_[probe_index]) > 0
  /\ LET first == HeapTop(tasks_[probe_index]) IN
       /\ Commit(pop(State, probe_index))
       /\ threads' =
            [threads EXCEPT ![t] =
               [pc |-> IF FindSubTable(first.reference_subtable.cache_block_id)
                          = NullSubTable
                       THEN "report" ELSE "release",
                task |-> first, second |-> probe_index - 1, lock |-> -1]]
  /\ UNCHANGED <<load_balancing_turns, processed, replayed, peer, broadcast>>

\* The worker releases the cache block of its task's reference subtable.
WorkerReleaseCache(t) ==
  /\ ~aborted
  /\ threads[t].pc = "release"
  /\ Commit(ReleaseCache(State, threads[t].task.reference_subtable.cache_block_id, 1))
  /\ threads' = [threads EXCEPT ![t].pc = "report"]
  /\ UNCHANGED <<load_balancing_turns, processed, replayed, peer, broadcast>>

\* The worker reports the work of its task: for the checked-out query
\* subtable if it holds one, for all the active ones otherwise.
WorkerPushCompleted(t) ==
  /\ ~aborted
  /\ threads[t].pc = "report"
  /\ LET ref == threads[t].task.reference_subtable
         work == threads[t].task.work
     IN IF threads[t].lock >= 0
        THEN /\ Commit(push_completed_computation_lock(State, ref.count, work,
                                                       threads[t].lock))
             /\ threads' = [threads EXCEPT ![t].pc = "return"]
        ELSE /\ Commit(push_completed_computation(State, ref.count, work))
             /\ threads' = [threads EXCEPT ![t] = IdleThread]
  /\ UNCHANGED <<load_balancing_turns, processed, replayed, peer, broadcast>>

\* The worker returns the query subtable it checked out.
WorkerReturn(t) ==
  /\ ~aborted
  /\ threads[t].pc = "return"
  /\ Commit(ReturnQuerySubTable(State, threads[t].lock))
  /\ threads' = [threads EXCEPT ![t] = IdleThread]
  /\ UNCHANGED <<load_balancing_turns, processed, replayed, peer, broadcast>>

\* A neighbor asks for extra work.  A request that moves nothing leaves
\* the queue as it was and is not counted as a turn.
ExportExtraTasks(neighbor_rank_in, budget, owned) ==
  /\ ~aborted
  /\ load_balancing_turns < MaxLoadBalancingTurns
  /\ LET after == PrepareExtraTaskList(State, neighbor_rank_in, budget, owned) IN
       /\ Commit(after)
       /\ load_balancing_turns' =
            IF after = State THEN load_balancing_turns
            ELSE load_balancing_turns + 1
  /\ UNCHANGED <<threads, processed, replayed, peer, broadcast>>

\* The exchange delivers a query subtable that a peer flushed back.
ReceiveFlushedQuerySubTable(received_query_subtable_in) ==
  /\ ~aborted
  /\ Commit(Synchronize(State, received_query_subtable_in))
  /\ UNCHANGED <<threads, load_balancing_turns, processed, replayed, peer, broadcast>>

\* The exchange sends what the queue has queued on it.
ExchangeSendReceive ==
  /\ ~aborted
  /\ table_exchange_.flush_requests # <<>>
  /\ Commit(SendReceive(State))
  /\ UNCHANGED <<threads, load_balancing_turns, processed, replayed, peer, broadcast>>

\* What the neighbor's load balance request may name as owned: every
\* subtable of the neighbor's own tables, and at most one of the others.
OwnedSets(neighbor) ==
  LET own == {subtable_id(query_subtables_[i]) :
                i \in {i \in 1 .. Len(query_subtables_) :
                         query_subtables_[i].rank = neighbor}}
      others == {subtable_id(query_subtables_[i]) :
                   i \in {i \in 1 .. Len(query_subtables_) :
                            query_subtables_[i].rank # neighbor}}
  IN {own} \cup {own \cup {x} : x \in others}

\* The subtables a peer may flush back: those checked out to a peer, whole
\* or in part.
FlushedBack ==
  UNION {{set_start_node(checked_out_query_subtables_[k].query_subtable_, n) :
            n \in Descendants(start_node(checked_out_query_subtables_[k].query_subtable_))} :
           k \in {k \in 1 .. Len(checked_out_query_subtables_) :
                    checked_out_query_subtables_[k].locked_mpi_rank_ # world.rank}}

Next ==
  \/ \E q \in ImportableQuerySubTables :
       \E refs \in UNION {[1 .. n -> CachedReferenceSubTables] :
                            n \in 0 .. MaxImportTasks} :
         ReceiveTaskList(q, refs)
  \/ \E ids \in UNION {[1 .. n -> ReceivedSubTableIds] : n \in 1 .. MaxBatch} :
       ReceiveReferenceSubTables(ids)
  \/ \E t \in Workers : WorkerDequeue(t)
  \/ \E t \in Workers : \E probe_index \in 1 .. Len(tasks_) :
       WorkerTopPop(t, probe_index)
  \/ \E t \in Workers : WorkerReleaseCache(t)
  \/ \E t \in Workers : WorkerPushCompleted(t)
  \/ \E t \in Workers : WorkerReturn(t)
  \/ \E neighbor \in RemoteRanks : \E budget \in {NumPoints, 3 * NumPoints} :
       \E owned \in OwnedSets(neighbor) :
         ExportExtraTasks(neighbor, budget, owned)
  \/ \E received \in FlushedBack : ReceiveFlushedQuerySubTable(received)
  \/ ExchangeSendReceive

Spec == Init /\ [][Next]_vars

-----------------------------------------------------------------------------
(* Two processes to termination: this process with its workers, the       *)
(* counter of the peer, and the completed work the exchange routes         *)
(* between the two.  No query subtable changes hands in these runs.        *)

\* decrement_remaining_local_computation: an unsigned subtraction.
decrement_remaining_local_computation(s, decrement) ==
  [s EXCEPT !.remaining_local_computation_ = USub(@, decrement)]

\* decrement_remaining_global_computation: what the exchange calls with a
\* quantity that a peer has completed.
decrement_remaining_global_computation(s, decrement) ==
  [s EXCEPT !.remaining_global_computation_ = USub(@, decrement)]

\* TableExchange::can_terminate: the exchange has nothing left to send.
ExchangeCanTerminate(s) ==
  /\ s.table_exchange_.flush_requests = <<>>
  /\ broadcast.to_peer = <<>>

\* The faulty variant of can_terminate that does not read the counter.
CanTerminateWithoutCounter(s) == ExchangeCanTerminate(s)

can_terminate(s) ==
  s.remaining_global_computation_ = 0 /\ ExchangeCanTerminate(s)

\* The reference subtables a run needs: the whole table of every process,
\* each given to GenerateTasks once.
EssentialSubTableIds == {t \in ReceivedSubTableIds : t[3] = RootNode.count}

DeliverReferenceSubTable(id) ==
  /\ id \notin processed
  /\ ReceiveReferenceSubTables(<<id>>)

\* The worker reports the work of its task as WorkerPushCompleted does, and
\* the exchange queues the quantity for the peer.
WorkerPushCompletedRouted(t) ==
  /\ ~aborted
  /\ threads[t].pc = "report"
  /\ LET ref == threads[t].task.reference_subtable
         work == threads[t].task.work
     IN /\ IF threads[t].lock >= 0
           THEN /\ Commit(push_completed_computation_lock(State, ref.count, work,
                                                          threads[t].lock))
                /\ threads' = [threads EXCEPT ![t].pc = "return"]
           ELSE /\ Commit(push_completed_computation(State, ref.count, work))
                /\ threads' = [threads EXCEPT ![t] = IdleThread]
        /\ broadcast' = [broadcast EXCEPT !.to_peer = Append(@, work)]
  /\ UNCHANGED <<load_balancing_turns, processed, replayed, peer>>

\* An idle worker asks whether the computation is over and leaves its loop
\* when it is.
WorkerCanTerminate(t) ==
  /\ ~aborted
  /\ threads[t].pc = "idle"
  /\ threads' = [threads EXCEPT ![t].pc =
                   IF can_terminate(State) THEN "done" ELSE "idle"]
  /\ Commit(State)
  /\ UNCHANGED <<load_balancing_turns, processed, replayed, peer, broadcast>>

\* The peer completes one piece of its work: its own
\* push_completed_computation, whose quantity the exchange routes here.
PeerPushCompleted ==
  /\ peer.work # <<>>
  /\ peer' = [remaining_global_computation_ |->
                USub(peer.remaining_global_computation_, Head(peer.work)),
              work |-> Tail(peer.work)]
  /\ broadcast' = [broadcast EXCEPT !.to_here = Append(@, Head(peer.work))]
  /\ Commit(State)
  /\ UNCHANGED <<threads, load_balancing_turns, processed, replayed>>

\* The exchange delivers a completed quantity of this process to the peer,
\* which applies decrement_remaining_global_computation.
DeliverToPeer ==
  /\ broadcast.to_peer # <<>>
  /\ peer' = [peer EXCEPT !.remaining_global_computation_ =
                USub(@, Head(broadcast.to_peer))]
  /\ broadcast' = [broadcast EXCEPT !.to_peer = Tail(@)]
  /\ Commit(State)
  /\ UNCHANGED <<threads, load_balancing_turns, processed, replayed>>

\* The exchange delivers a completed quantity of the peer here.
DeliverHere ==
  /\ ~aborted
  /\ broadcast.to_here # <<>>
  /\ Commit(decrement_remaining_global_computation(State, Head(broadcast.to_here)))
  /\ broadcast' = [broadcast EXCEPT !.to_here = Tail(@)]
  /\ UNCHANGED <<threads, load_balancing_turns, processed, replayed, peer>>

NextLive ==
  \/ \E id \in EssentialSubTableIds : DeliverReferenceSubTable(id)
  \/ \E t \in Workers : WorkerDequeue(t)
  \/ \E t \in Workers : WorkerReleaseCache(t)
  \/ \E t \in Workers : WorkerPushCompletedRouted(t)
  \/ \E t \in Workers : WorkerReturn(t)
  \/ \E t \in Workers : WorkerCanTerminate(t)
  \/ PeerPushCompleted
  \/ DeliverToPeer
  \/ DeliverHere

\* The steps whose every call changes something: a worker releasing,
\* reporting, returning or leaving, the peer completing a piece of work and
\* the exchange delivering a completed quantity.
HandOverSteps ==
  \/ \E t \in Workers : WorkerReleaseCache(t)
  \/ \E t \in Workers : WorkerPushCompletedRouted(t)
  \/ \E t \in Workers : WorkerReturn(t)
  \/ \E t \in Workers : WorkerCanTerminate(t)
  \/ PeerPushCompleted
  \/ DeliverToPeer
  \/ DeliverHere

\* A call of DequeueTask by the next idle worker would change something:
\* hand out a task, or clean up or split a slot.
WorkerDequeueEnabled ==
  /\ ~aborted
  /\ \E t \in Workers :
       /\ threads[t].pc = "idle"
       /\ \A u \in 1 .. (t - 1) : threads[u].pc # "idle"
       /\ LET r == DequeueTask(State, lock_on_dequeue)
          IN r.s # State \/ r.out.second >= 0

\* The exchange still has a reference subtable to deliver.
DeliverReferenceSubTableEnabled ==
  ~aborted /\ EssentialSubTableIds \ processed # {}

\* The scheduling of a run: the workers keep releasing, reporting and
\* returning, the peer keeps completing and the exchange keeps delivering
\* (weak fairness of the hand-over steps); a worker that could get
\* something out of DequeueTask calls it, and a reference subtable that is
\* due is delivered (weak fairness of these two steps, written out with
\* their enabling conditions).
SpecLive ==
  /\ Init
  /\ [][NextLive]_vars
  /\ WF_vars(HandOverSteps)
  /\ \/ []<>(~WorkerDequeueEnabled)
     \/ []<><<\E t \in Workers : WorkerDequeue(t)>>_vars
  /\ \/ []<>(~DeliverReferenceSubTableEnabled)
     \/ []<><<\E id \in EssentialSubTableIds : DeliverReferenceSubTable(id)>>_vars

-----------------------------------------------------------------------------
(* The lock of the queue.  A worker is inside DequeueTask from the moment  *)
(* it has taken task_queue_lock_ until it returns, and inside the accessor *)
(* query_subtable from its call to its return.  The other members take the *)
(* lock for one step.                                                      *)

\* The members that begin with a scoped lock on task_queue_lock_, by the
\* position of the worker that is inside one.
HoldsLock(t) == threads[t].pc = "dequeue"

LockFree == \A t \in 1 .. MaxThreads : ~HoldsLock(t)

\* DequeueTask, line 881: the worker takes the lock.
DequeueEnter(t) ==
  /\ ~aborted
  /\ threads[t].pc = "idle"
  /\ \A u \in 1 .. (t - 1) : threads[u].pc # "idle"
  /\ LockFree
  /\ threads' = [threads EXCEPT ![t].pc = "dequeue"]
  /\ Commit(State)
  /\ UNCHANGED <<load_balancing_turns, processed, replayed, peer, broadcast>>

\* DequeueTask, lines 882-898: the scan, and the lock is given up on return.
DequeueLeave(t) ==
  /\ ~aborted
  /\ threads[t].pc = "dequeue"
  /\ LET r == DequeueTask(State, lock_on_dequeue) IN
       /\ Commit(r.s)
       /\ threads' =
            IF r.s.aborted \/ r.out.second < 0
            THEN [threads EXCEPT ![t] = IdleThread]
            ELSE [threads EXCEPT ![t] =
                    [pc |-> IF FindSubTable(r.out.first.reference_subtable.cache_block_id)
                               = NullSubTable
                            THEN "report" ELSE "release",
                     task |-> r.out.first, second |-> r.out.second,
                     lock |-> r.out.lock]]
  /\ UNCHANGED <<load_balancing_turns, processed, replayed, peer, broadcast>>

\* query_subtable(probe_index), lines 575-577: a worker that holds a task and
\* the index of its slot, and no checkout handle, asks for the query
\* subtable of that index.  The accessor takes no lock.
QuerySubTableEnter(t) ==
  /\ ~aborted
  /\ threads[t].pc = "report"
  /\ threads[t].lock < 0
  /\ threads' = [threads EXCEPT ![t].pc = "query_subtable"]
  /\ Commit(State)
  /\ UNCHANGED <<load_balancing_turns, processed, replayed, peer, broadcast>>

QuerySubTableLeave(t) ==
  /\ ~aborted
  /\ threads[t].pc = "query_subtable"
  /\ threads' = [threads EXCEPT ![t].pc = "report"]
  /\ Commit(State)
  /\ UNCHANGED <<load_balancing_turns, processed, replayed, peer, broadcast>>

NextLock ==
  \/ \E id \in EssentialSubTableIds : LockFree /\ DeliverReferenceSubTable(id)
  \/ \E t \in Workers : DequeueEnter(t)
  \/ \E t \in Workers : DequeueLeave(t)
  \/ \E t \in Workers : QuerySubTableEnter(t)
  \/ \E t \in Workers : QuerySubTableLeave(t)
  \/ \E t \in Workers : LockFree /\ WorkerReleaseCache(t)
  \/ \E t \in Workers : LockFree /\ WorkerPushCompleted(t)
  \/ \E t \in Workers : LockFree /\ WorkerReturn(t)

SpecLock == Init /\ [][NextLock]_vars

-----------------------------------------------------------------------------
(* A run with a wider query table and more threads, without load           *)
(* balancing: slots of different sizes compete for a split.  The points    *)
(* of the query table lie on the same line as before, from 0 on.           *)

\* Points in the local query table of this run.
WidePoints == 5

\* num_threads_in of this run.
WideThreads == 3

\* The constructor followed by Init(world, ..., num_threads_in), as Init
\* above, for the wider query table.  Of the frontiers that
\* get_frontier_nodes_bounded_by_number may return, those with fewer nodes
\* than threads are taken: the others are not redistributed at the start.
InitWide ==
  \E frontier \in {f \in Frontiers(Node(0, WidePoints)) : Len(f) < WideThreads} :
    /\ num_threads_ = WideThreads
    /\ query_subtables_ =
         [i \in 1 .. Len(frontier) |->
            SubTable(world.rank, frontier[i], world.rank, -1)]
    /\ tasks_ = [i \in 1 .. Len(frontier) |-> <<>>]
    /\ assigned_work_ = [i \in 1 .. Len(frontier) |-> EmptyIntervals]
    /\ remaining_work_for_query_subtables_ =
         [i \in 1 .. Len(frontier) |-> world.size * NumPoints]
    /\ checked_out_query_subtables_ = <<>>
    /\ num_exported_query_subtables_ = 0
    /\ num_imported_query_subtables_ = 0
    /\ num_remaining_tasks_ = 0
    /\ remaining_global_computation_ =
         (WidePoints + (world.size - 1) * NumPoints) * (world.size * NumPoints)
    /\ remaining_local_computation_ = 0
    /\ table_exchange_ = [cache_locks |-> [c \in CacheIds |-> 0],
                          flush_requests |-> <<>>]
    /\ aborted = FALSE
    /\ threads = [t \in 1 .. WideThreads |-> IdleThread]
    /\ lock_on_dequeue \in BOOLEAN
    /\ load_balancing_turns = 0
    /\ processed = {}
    /\ replayed = FALSE
    /\ peer = [remaining_global_computation_ |->
                 (WidePoints + (world.size - 1) * NumPoints) * (world.size * NumPoints),
               work |-> [r \in 1 .. world.size |-> NumPoints * NumPoints]]
    /\ broadcast = [to_peer |-> <<>>, to_here |-> <<>>]

\* The threads that have asked for work so far; the others are idle.
EarlyWorkers == 1 .. MaxThreads

NextWide ==
  \/ \E id \in EssentialSubTableIds : DeliverReferenceSubTable(id)
  \/ \E t \in EarlyWorkers : WorkerDequeue(t)
  \/ \E t \in EarlyWorkers : WorkerReleaseCache(t)
  \/ \E t \in EarlyWorkers : WorkerPushCompleted(t)
  \/ \E t \in EarlyWorkers : WorkerReturn(t)

SpecWide == InitWide /\ [][NextWide]_vars

-----------------------------------------------------------------------------
(* What is held: the active slots and the checked-out entries.            *)

\* The task heaps of the active slots followed by those of the checked-out
\* entries.
AllHeaps ==
  tasks_ \o [k \in 1 .. Len(checked_out_query_subtables_) |->
               checked_out_query_subtables_[k].task_]

\* The query subtables of the active slots followed by those of the
\* checked-out entries.
AllQuerySubTables ==
  query_subtables_ \o [k \in 1 .. Len(checked_out_query_subtables_) |->
                         checked_out_query_subtables_[k].query_subtable_]

\* The assigned work of the active slots followed by that of the
\* checked-out entries.
AllAssignedWork ==
  assigned_work_ \o [k \in 1 .. Len(checked_out_query_subtables_) |->
                       checked_out_query_subtables_[k].assigned_work_]

\* work() of a task, from the point counts of its two subtables.
WorkOf(task) == task.query_subtable.count * task.reference_subtable.count

RECURSIVE SumOfWorkOf(_)
SumOfWorkOf(h) == IF h = <<>> THEN 0 ELSE WorkOf(h[1]) + SumOfWorkOf(Tail(h))

\* The reference interval (owner, begin, begin + count) of a task.
IntervalOf(task) ==
  Interval(task.reference_subtable.rank, task.reference_subtable.begin,
           task.reference_subtable.begin + task.reference_subtable.count)

\* The entries of the checked-out list that a remote rank has locked.
RemotelyLocked ==
  {k \in 1 .. Len(checked_out_query_subtables_) :
     checked_out_query_subtables_[k].locked_mpi_rank_ # world.rank}

-----------------------------------------------------------------------------
(* C1 *)

\* C1: in every reachable state the four parallel vectors query_subtables_,
\* tasks_, assigned_work_ and remaining_work_for_query_subtables_ have the
\* same length.
ParallelVectorLength ==
  /\ Len(tasks_) = Len(query_subtables_)
  /\ Len(assigned_work_) = Len(query_subtables_)
  /\ Len(remaining_work_for_query_subtables_) = Len(query_subtables_)

\* Slots have been imported, filled, dequeued from and checked out, and at
\* least two are active.
ParallelVectorLengthWitness ==
  /\ ~aborted
  /\ Len(query_subtables_) >= 2
  /\ num_imported_query_subtables_ >= 1
  /\ checked_out_query_subtables_ # <<>>
  /\ num_remaining_tasks_ >= 1
  /\ \E t \in Workers : threads[t].pc # "idle"

-----------------------------------------------------------------------------
(* C2 *)

\* C2: in every reachable state num_remaining_tasks_ is the number of tasks
\* in the heaps of the active slots plus the number of tasks in the heaps of
\* the checked-out entries.
TaskAccounting ==
  num_remaining_tasks_ =
    SumOverSeq([i \in 1 .. Len(AllHeaps) |-> Len(AllHeaps[i])], Len(AllHeaps))

\* Tasks are pending both in an active slot and in a checked-out entry,
\* while a worker holds a task it has dequeued.
TaskAccountingWitness ==
  /\ ~aborted
  /\ \E i \in 1 .. Len(tasks_) : Len(tasks_[i]) >= 1
  /\ \E k \in 1 .. Len(checked_out_query_subtables_) :
       Len(checked_out_query_subtables_[k].task_) >= 1
  /\ \E t \in Workers : threads[t].pc # "idle"

-----------------------------------------------------------------------------
(* C3 *)

-----------------------------------------------------------------------------
(* C4 *)

\* The tasks of heap h have their intervals recorded in d, and no two of
\* them have the same interval.
RecordedAndDistinct(h, d) ==
  /\ \A n \in 1 .. Len(h) : IntervalOf(h[n]) \in d.intervals
  /\ \A m, n \in 1 .. Len(h) : m # n => IntervalOf(h[m]) # IntervalOf(h[n])

-----------------------------------------------------------------------------
(* C5 *)

\* C5: in every reachable state, GenerateTasks called with a tuple it has
\* processed before creates no task in any active or checked-out heap,
\* leaves num_remaining_tasks_ and remaining_local_computation_ as they are
\* and asks the exchange for no cache lock, whatever was split, checked out
\* or returned since the tuple was processed.
GenerateTasksIdempotent ==
  \A id \in processed :
    LET again == GenerateTasks(State, <<id>>) IN
      /\ again.tasks_ = tasks_
      /\ again.checked_out_query_subtables_ = checked_out_query_subtables_
      /\ again.assigned_work_ = assigned_work_
      /\ again.num_remaining_tasks_ = num_remaining_tasks_
      /\ again.remaining_local_computation_ = remaining_local_computation_
      /\ again.table_exchange_ = table_exchange_

\* A tuple has been given to GenerateTasks a second time, and this process
\* holds query subtables of its own both in a slot and checked out, with
\* tasks pending.
GenerateTasksIdempotentWitness ==
  /\ ~aborted
  /\ replayed
  /\ \E i \in 1 .. Len(tasks_) :
       /\ query_subtables_[i].rank = world.rank
       /\ Len(tasks_[i]) >= 1
  /\ \E k \in 1 .. Len(checked_out_query_subtables_) :
       /\ checked_out_query_subtables_[k].query_subtable_.rank = world.rank
       /\ checked_out_query_subtables_[k].assigned_work_.intervals # {}

-----------------------------------------------------------------------------
(* C6 *)

\* The tasks that reference cache block c: pending in a heap, or dequeued
\* by a worker that has not released the block yet.
TasksReferencing(c) ==
  SumOverSeq([i \in 1 .. Len(AllHeaps) |->
                Cardinality({n \in 1 .. Len(AllHeaps[i]) :
                               AllHeaps[i][n].reference_subtable.cache_block_id = c})],
             Len(AllHeaps))
  + Cardinality({t \in 1 .. MaxThreads :
                   /\ threads[t].pc = "release"
                   /\ threads[t].task.reference_subtable.cache_block_id = c})

\* C6: for every cache id, the LockCache units issued minus the
\* ReleaseCache units issued is the number of tasks that reference the
\* block and are pending or dequeued and not yet released.
CacheLockBalance ==
  \A c \in CacheIds : table_exchange_.cache_locks[c] = TasksReferencing(c)

-----------------------------------------------------------------------------
(* C7 *)

\* C7: in every reachable state no two of the active slots and checked-out
\* entries hold the same query subtree or overlapping parts of one: each
\* subtree is in one slot or in one entry, never in both and never twice.
SingleOwnership ==
  \A x, y \in 1 .. Len(AllQuerySubTables) :
    x # y => ~Overlap(AllQuerySubTables[x], AllQuerySubTables[y])

\* One subtable is checked out to a peer and another is checked out by a
\* worker.
SingleOwnershipWitness ==
  /\ ~aborted
  /\ RemotelyLocked # {}
  /\ \E k \in 1 .. Len(checked_out_query_subtables_) :
       checked_out_query_subtables_[k].locked_mpi_rank_ = world.rank

-----------------------------------------------------------------------------
(* C8 *)

\* The slots of s as a set of records and how often a record occurs.
SlotRecords(s) ==
  [i \in 1 .. Len(s.query_subtables_) |->
     <<s.query_subtables_[i], s.tasks_[i], s.assigned_work_[i],
       s.remaining_work_for_query_subtables_[i]>>]

Occurrences(v, x) == Cardinality({i \in 1 .. Len(v) : v[i] = x})

\* after is before, except for the order of the slots.
Restored(before, after) ==
  /\ after.num_exported_query_subtables_ = before.num_exported_query_subtables_
  /\ after.num_imported_query_subtables_ = before.num_imported_query_subtables_
  /\ after.num_remaining_tasks_ = before.num_remaining_tasks_
  /\ after.remaining_local_computation_ = before.remaining_local_computation_
  /\ after.remaining_global_computation_ = before.remaining_global_computation_
  /\ after.checked_out_query_subtables_ = before.checked_out_query_subtables_
  /\ Len(SlotRecords(after)) = Len(SlotRecords(before))
  /\ \A i \in 1 .. Len(SlotRecords(before)) :
       Occurrences(SlotRecords(after), SlotRecords(before)[i])
         = Occurrences(SlotRecords(before), SlotRecords(before)[i])

\* C8: in every reachable state, for every active slot and every rank r,
\* LockQuerySubTable(slot, r) followed at once by ReturnQuerySubTable of the
\* returned handle restores the counters, the slots with their heaps,
\* assigned work and remaining work, and the checked-out list, except for
\* the index of the slot.
CheckoutDuality ==
  \A probe_index \in 1 .. Len(query_subtables_) : \A r \in Ranks :
    Restored(State,
             ReturnQuerySubTable(LockQuerySubTable(State, probe_index, r),
                                 NewNode(State)))

-----------------------------------------------------------------------------
(* C9 *)

\* C9: in every reachable state num_exported_query_subtables_ is the number
\* of checked-out entries locked by a rank other than this process's.
ExportedCount ==
  num_exported_query_subtables_ = Cardinality(RemotelyLocked)

-----------------------------------------------------------------------------
(* C10 *)

-----------------------------------------------------------------------------
(* Termination, the routing of completed work and the locking.             *)

\* C11 as stated: from a start with work remaining on every process, under
\* fair scheduling of the workers and of the exchange, the remaining global
\* computation reaches zero on this process and on the peer and from then
\* on can_terminate holds.
EventuallyTerminates ==
  <>[](/\ remaining_global_computation_ = 0
       /\ peer.remaining_global_computation_ = 0
       /\ can_terminate(State))

\* The completed quantities that the exchange has not delivered yet.
PendingToPeer == SumOverSeq(broadcast.to_peer, Len(broadcast.to_peer))

PendingToHere == SumOverSeq(broadcast.to_here, Len(broadcast.to_here))

\* Each counter, less what is on its way to it, is the total less all the
\* work completed so far.
CompletedWorkConserved ==
  USub(remaining_global_computation_, PendingToHere)
    = USub(peer.remaining_global_computation_, PendingToPeer)

\* A worker's report takes the quantity off this process's counter and
\* hands it to the exchange in the same step.
ReportedAtOnce ==
  \A t \in Workers :
    (threads[t].pc = "report" /\ threads'[t].pc # "report")
      => /\ remaining_global_computation_' =
              USub(remaining_global_computation_, threads[t].task.work)
         /\ broadcast'.to_peer = Append(broadcast.to_peer, threads[t].task.work)

\* C12: push_completed_computation takes the quantity off the caller's
\* remaining_global_computation_ at once, the exchange delivers it to the
\* peer, whose counter then goes down by the same quantity, and nothing is
\* lost or applied twice: each counter less what is still on its way to it
\* is the same number at all times, and in the end nothing is on its way
\* and the two counters are equal.
CompletedWorkRouted ==
  /\ []CompletedWorkConserved
  /\ [][ReportedAtOnce]_vars
  /\ <>[](/\ broadcast.to_peer = <<>>
          /\ broadcast.to_here = <<>>
          /\ peer.remaining_global_computation_ = remaining_global_computation_)

\* The peer has applied a quantity that a worker of this process reported,
\* and nothing is on its way.
CompletedWorkRoutedWitness ==
  /\ broadcast.to_peer = <<>>
  /\ broadcast.to_here = <<>>
  /\ peer.work = <<>>
  /\ peer.remaining_global_computation_ = remaining_global_computation_
  /\ remaining_global_computation_
       < (world.size * NumPoints) * (world.size * NumPoints)
           - world.size * NumPoints * NumPoints

\* A worker that was idle has left its loop: can_terminate answered true.
AnsweredTrue(t) == threads[t].pc = "idle" /\ threads'[t].pc = "done"

\* C13: can_terminate answers true exactly when, in the state it is called
\* in, remaining_global_computation_ is zero and the exchange can
\* terminate: it is true in every such state, and no worker gets the
\* answer true in a state where remaining_global_computation_ is not zero.
TerminationAnswer ==
  /\ []((remaining_global_computation_ = 0 /\ ExchangeCanTerminate(State))
          => can_terminate(State))
  /\ [][\A t \in Workers :
          AnsweredTrue(t) => /\ remaining_global_computation_ = 0
                             /\ ExchangeCanTerminate(State)]_vars

\* A worker has left its loop on the answer of can_terminate.
TerminationAnswerWitness ==
  /\ \E t \in Workers : threads[t].pc = "done"
  /\ remaining_global_computation_ = 0

\* C14 as stated: every access to the fields of the queue by a public
\* member is made under task_queue_lock_, the accessor query_subtable
\* included, so that no worker is inside a member while another worker
\* holds the lock.
AccessUnderLock ==
  \A t, u \in Workers :
    (t # u /\ HoldsLock(t)) => threads[u].pc \notin {"dequeue", "query_subtable"}

-----------------------------------------------------------------------------
(* The scanning dequeue.                                                   *)

\* What a call of the scanning DequeueTask in the current state gives.
ScanningDequeue == DequeueTask(State, lock_on_dequeue)

\* A slot whose heap was empty is gone: it was evicted or flushed.
CleanedUp(after) ==
  \E i \in 1 .. Len(tasks_) :
    /\ tasks_[i] = <<>>
    /\ \A j \in 1 .. Len(after.query_subtables_) :
         after.query_subtables_[j] # query_subtables_[i]

\* The cleanup conditions of the single-slot DequeueTask for a slot whose
\* heap is empty.
EligibleForCleanup(s, j) ==
  IF s.query_subtables_[j].rank = world.rank
  THEN s.remaining_work_for_query_subtables_[j] = 0
  ELSE TRUE

\* C15 as stated: a call of the scanning dequeue returns, and either it
\* gives a task, or it has cleaned up a slot, or every active slot has an
\* empty heap and is not eligible for cleanup and the call has changed
\* nothing.
DequeueProgress ==
  ~aborted =>
    /\ ~ScanningDequeue.s.aborted
    /\ \/ ScanningDequeue.out.second >= 0
       \/ CleanedUp(ScanningDequeue.s)
       \/ /\ \A j \in 1 .. Len(tasks_) :
               tasks_[j] = <<>> /\ ~EligibleForCleanup(State, j)
          /\ ScanningDequeue.s = State

-----------------------------------------------------------------------------
(* Synchronize, the local counter and PushNewQueue.                        *)

\* The list without its k-th node.
WithoutNode(list, k) ==
  [j \in 1 .. (Len(list) - 1) |-> IF j < k THEN list[j] ELSE list[j + 1]]

\* What Synchronize makes of the current state when it is given the query
\* subtable of the k-th checked-out node.
SynchronizedWith(k) ==
  Synchronize(State, checked_out_query_subtables_[k].query_subtable_)

\* The only slot is exported to a neighbor that owns nothing and can hold
\* more than the slot's points, and then flushed back.
ExportedOnly(neighbor) ==
  PrepareExtraTaskList(State, neighbor, PointsOfSlot(State, 1) + 1, {})

\* C17: given the exact identity of a checked-out node, Synchronize appends
\* the node's query subtable, task queue, assigned work and remaining work
\* as a new last slot, erases the node, takes one off
\* num_exported_query_subtables_ and changes nothing else; and after the
\* only slot has been exported by PrepareExtraTaskList, Synchronize with
\* its identity leaves one active slot and num_exported_query_subtables_
\* at 0.
SynchronizeExactIdentity ==
  /\ \A k \in 1 .. Len(checked_out_query_subtables_) :
       LET it == checked_out_query_subtables_[k] IN
       SynchronizedWith(k) =
         [State EXCEPT
            !.query_subtables_ = Append(@, it.query_subtable_),
            !.tasks_ = Append(@, it.task_),
            !.assigned_work_ = Append(@, it.assigned_work_),
            !.remaining_work_for_query_subtables_ =
               Append(@, it.remaining_work_for_query_subtable_),
            !.checked_out_query_subtables_ = WithoutNode(@, k),
            !.num_exported_query_subtables_ = @ - 1]
  /\ (/\ ~aborted
      /\ Len(query_subtables_) = 1
      /\ checked_out_query_subtables_ = <<>>
      /\ num_exported_query_subtables_ = 0)
       => \A neighbor \in RemoteRanks :
            /\ Len(ExportedOnly(neighbor).query_subtables_) = 0
            /\ ExportedOnly(neighbor).num_exported_query_subtables_ = 1
            /\ LET back == Synchronize(ExportedOnly(neighbor), query_subtables_[1])
               IN /\ Len(back.query_subtables_) = 1
                  /\ back.checked_out_query_subtables_ = <<>>
                  /\ back.num_exported_query_subtables_ = 0

\* A query subtable with a task on its queue is checked out to the peer
\* while another slot is active.
SynchronizeExactIdentityWitness ==
  /\ ~aborted
  /\ Len(query_subtables_) >= 1
  /\ \E k \in 1 .. Len(checked_out_query_subtables_) :
       /\ checked_out_query_subtables_[k].locked_mpi_rank_ # world.rank
       /\ checked_out_query_subtables_[k].task_ # <<>>

\* The query subtables that Synchronize may be given: any subtree of the
\* query table of any process.
ReceivableQuerySubTables ==
  {SubTable(r, n, r, -1) : r \in Ranks, n \in Descendants(RootNode)}

\* C18 as stated: Synchronize with a query subtable that no checked-out
\* node includes ends in the fatal state and does not return normally.
SynchronizeUnknownIsFatal ==
  ~aborted =>
    \A received \in ReceivableQuerySubTables :
      FirstIncluding(checked_out_query_subtables_, received, 1) = 0
        => Synchronize(State, received).aborted

\* C19 as stated: remaining_local_computation_ is never driven past zero;
\* a decrement by more than the counter holds ends in the fatal state and
\* does not wrap.
LocalCounterNeverWraps ==
  ~aborted =>
    \A decrement \in 1 .. NumPoints * NumPoints :
      LET after == decrement_remaining_local_computation(State, decrement) IN
      remaining_local_computation_ < decrement
        => /\ after.aborted
           /\ after.remaining_local_computation_ <= remaining_local_computation_

\* C20 as stated: PushNewQueue appends one slot with the given query
\* subtable and originating rank, remaining work 0, an empty task queue and
\* an empty assigned work that later calls can use, adds one to
\* num_imported_query_subtables_ and changes nothing else.
PushNewQueueContract ==
  ~aborted =>
    \A q \in ImportableQuerySubTables :
      PushNewQueue(State, q.rank, q) =
        [State EXCEPT
           !.query_subtables_ = Append(@, [q EXCEPT !.originating_rank = q.rank]),
           !.tasks_ = Append(@, <<>>),
           !.remaining_work_for_query_subtables_ = Append(@, 0),
           !.assigned_work_ = Append(@, EmptyIntervals),
           !.num_imported_query_subtables_ = @ + 1]

-----------------------------------------------------------------------------
(* C21 *)

\* C21: in every reachable state, for every active slot, Evict_ of the slot
\* followed by PushNewQueue with the slot's query subtable and its origin
\* gives the state before the eviction again, except for the index of the
\* slot: the same subtable and origin, heap, assigned work, remaining work
\* and counters.
EvictThenPushNewQueue ==
  \A probe_index \in 1 .. Len(query_subtables_) :
    Restored(State,
             PushNewQueue(Evict_(State, probe_index),
                          query_subtables_[probe_index].originating_rank,
                          query_subtables_[probe_index]))

-----------------------------------------------------------------------------
(* C22 *)

\* The ids CheckIntegrity is asked about: every subtable of every
\* reference table, those that never arrive here included.
DestructIds ==
  {<<r, n.begin, n.count>> : r \in Ranks, n \in Descendants(RootNode)}

\* Some task queued in an active slot or held in a checked-out entry refers
\* to the reference subtable id.
PendingReference(id) ==
  \E k \in 1 .. Len(AllHeaps) : \E j \in 1 .. Len(AllHeaps[k]) :
    subtable_id(AllHeaps[k][j].reference_subtable) = id

\* C22: in every reachable state and for every id, CheckIntegrity(id) is
\* true if and only if a task pending in the heap of an active slot or of a
\* checked-out entry refers to the reference subtable with that id; so it
\* is true once the task has been generated and false once the task has
\* been dequeued and its slot evicted.
CheckIntegrityAnswer ==
  \A id \in DestructIds : CheckIntegrity(State, id) <=> PendingReference(id)

\* A reference subtable whose only pending task waits in a checked-out
\* entry, and another one that GenerateTasks was given and that no task
\* refers to any more.
CheckIntegrityAnswerWitness ==
  /\ ~aborted
  /\ \E id \in DestructIds :
       /\ PendingReference(id)
       /\ \A i \in 1 .. Len(tasks_) : \A j \in 1 .. Len(tasks_[i]) :
            subtable_id(tasks_[i][j].reference_subtable) # id
  /\ \E t \in processed : ~PendingReference(<<t[1], t[2], t[3]>>)

-----------------------------------------------------------------------------
(* C23 *)

\* What the iterator h designates: the node of the checked-out list with
\* that address, or nothing once the node has been erased.
EntryOf(h) ==
  LET k == PositionOf(State, h) IN
  IF k = 0 THEN <<>> ELSE <<checked_out_query_subtables_[k]>>

\* C23: a handle that a worker holds designates an entry of the
\* checked-out list, and every step in which the worker itself does not
\* move and GenerateTasks adds no task (the steps of other threads that
\* lock, return or synchronize, among them) leaves that entry as it is,
\* with its subtable, heap, assigned work, remaining work and locking rank:
\* no operation returns or erases an entry that another thread holds.
HandleStable ==
  [][\A t \in Workers :
       (threads[t].lock >= 0 /\ threads'[t] = threads[t] /\ processed' = processed)
         => /\ EntryOf(threads[t].lock) # <<>>
            /\ EntryOf(threads[t].lock)' = EntryOf(threads[t].lock)]_vars

\* A worker holds a handle while a later checkout for a peer sits in front
\* of its entry in the list.
HandleStableWitness ==
  /\ ~aborted
  /\ \E t \in Workers :
       /\ threads[t].lock >= 0
       /\ PositionOf(State, threads[t].lock) >= 2
       /\ checked_out_query_subtables_[1].locked_mpi_rank_ # world.rank

-----------------------------------------------------------------------------
(* C24 *)

\* The queue when the scan of DequeueTask begins: after the attempt to
\* redistribute, if there was one.
BeforeScan(s) ==
  IF Len(s.tasks_) < s.num_threads_ THEN RedistributeAmongCores_(s) ELSE s

RECURSIVE SumOfLengths(_)
SumOfLengths(v) == IF v = <<>> THEN 0 ELSE Len(v[1]) + SumOfLengths(Tail(v))

\* The tasks in the heaps of the active slots and of the checked-out entries.
NumberOfTasks(s) ==
  SumOfLengths(s.tasks_)
    + SumOfLengths([k \in 1 .. Len(s.checked_out_query_subtables_) |->
                      s.checked_out_query_subtables_[k].task_])

\* What is left of the slot a task was taken from: the heap at the index
\* given out, or the heap of the front entry of the checked-out list.
RestOfHeap(after, out, want_lock) ==
  IF want_lock THEN after.checked_out_query_subtables_[1].task_
  ELSE after.tasks_[out.second + 1]

\* The scan started at the lowest index, passed only slots whose heap is
\* empty and that are not to be cleaned up, and gave out the top task of
\* the first slot with tasks.
FirstSuccess(before, after, out, want_lock) ==
  /\ \A i \in 1 .. out.second : after.tasks_[i] = <<>>
  /\ \E j \in 1 .. Len(before.tasks_) :
       /\ before.tasks_[j] = <<out.first>> \o RestOfHeap(after, out, want_lock)
       /\ before.query_subtables_[j] = out.first.query_subtable
  /\ \A k \in 1 .. Len(RestOfHeap(after, out, want_lock)) :
       RestOfHeap(after, out, want_lock)[k].priority <= out.first.priority
  /\ NumberOfTasks(after) = NumberOfTasks(before) - 1
  /\ after.num_remaining_tasks_ = before.num_remaining_tasks_ - 1

\* C24: in every reachable state, a scanning DequeueTask that returns gives
\* out the highest-priority task of the lowest-index slot that has tasks
\* once the cleaned slots are gone, and removes that task and no other; if
\* it gives out no task, no active slot has one and none was removed.
ScanOrder ==
  \A want_lock \in BOOLEAN :
    LET before == BeforeScan(State)
        r == DequeueTask(State, want_lock)
    IN ~r.s.aborted =>
         IF r.out.second >= 0
         THEN FirstSuccess(before, r.s, r.out, want_lock)
         ELSE /\ \A i \in 1 .. Len(r.s.tasks_) : r.s.tasks_[i] = <<>>
              /\ NumberOfTasks(r.s) = NumberOfTasks(before)

\* The first slot is cleaned up by the scan, and the task comes from a slot
\* behind it, of which there are at least two.
ScanOrderWitness ==
  /\ ~aborted
  /\ Len(tasks_) >= 3
  /\ LET r == DequeueTask(State, lock_on_dequeue) IN
       /\ ~r.s.aborted
       /\ r.out.second >= 0
       /\ BeforeScan(State).tasks_[1] = <<>>
       /\ Len(r.s.tasks_) + (IF lock_on_dequeue THEN 1 ELSE 0)
            < Len(BeforeScan(State).tasks_)

-----------------------------------------------------------------------------
(* C25 *)

\* after has the slots of before less slot i, in some order.
SlotGone(before, after, i) ==
  /\ Len(SlotRecords(after)) = Len(SlotRecords(before)) - 1
  /\ \A j \in 1 .. Len(SlotRecords(before)) :
       Occurrences(SlotRecords(after), SlotRecords(before)[j])
         = Occurrences(SlotRecords(before), SlotRecords(before)[j])
             - (IF SlotRecords(before)[j] = SlotRecords(before)[i] THEN 1 ELSE 0)

\* The counters and the checked-out list are those of before, but for the
\* given change of num_imported_query_subtables_.
CountersKept(before, after, imported_change) ==
  /\ after.num_imported_query_subtables_
       = before.num_imported_query_subtables_ + imported_change
  /\ after.num_exported_query_subtables_ = before.num_exported_query_subtables_
  /\ after.num_remaining_tasks_ = before.num_remaining_tasks_
  /\ after.remaining_local_computation_ = before.remaining_local_computation_
  /\ after.remaining_global_computation_ = before.remaining_global_computation_
  /\ after.checked_out_query_subtables_ = before.checked_out_query_subtables_
  /\ after.table_exchange_.cache_locks = before.table_exchange_.cache_locks

\* The cleanup the single-slot DequeueTask makes of slot i, whose heap is
\* empty.
CleanupOfEmptySlot(before, r, i) ==
  IF before.query_subtables_[i].rank = world.rank
  THEN IF before.remaining_work_for_query_subtables_[i] = 0
       THEN /\ r.ret
            /\ SlotGone(before, r.s, i)
            /\ CountersKept(before, r.s, 0)
            /\ r.s.table_exchange_ = before.table_exchange_
       ELSE ~r.ret /\ r.s = before
  ELSE /\ r.ret
       /\ SlotGone(before, r.s, i)
       /\ CountersKept(before, r.s, -1)
       /\ r.s.table_exchange_.flush_requests =
            Append(before.table_exchange_.flush_requests,
                   subtable_id(before.query_subtables_[i]))

\* Slot i had tasks: nothing is cleaned up.  The slot keeps its place, or
\* its records are in the front entry of the checked-out list.
NoCleanup(before, r, i, want_lock) ==
  /\ ~r.ret
  /\ r.s.table_exchange_ = before.table_exchange_
  /\ r.s.num_imported_query_subtables_ = before.num_imported_query_subtables_
  /\ LET rest == Tail(before.tasks_[i]) IN
       IF want_lock
       THEN LET e == r.s.checked_out_query_subtables_[1] IN
            <<e.query_subtable_, e.task_, e.assigned_work_,
              e.remaining_work_for_query_subtable_>>
              = <<before.query_subtables_[i], rest, before.assigned_work_[i],
                  before.remaining_work_for_query_subtables_[i]>>
       ELSE /\ Len(r.s.tasks_) = Len(before.tasks_)
            /\ SlotRecords(r.s)[i]
                 = <<before.query_subtables_[i], rest, before.assigned_work_[i],
                     before.remaining_work_for_query_subtables_[i]>>

\* C25: in every reachable state and for every active slot, the single-slot
\* DequeueTask on a slot with an empty heap evicts it and returns true
\* exactly when the slot is of this rank with no remaining work, flushes it
\* (one flush request, num_imported less one, the slot gone) and returns
\* true exactly when it is imported, and returns false with nothing changed
\* otherwise; a slot with tasks is neither evicted nor flushed.
CleanupCases ==
  \A want_lock \in BOOLEAN : \A i \in 1 .. Len(tasks_) :
    LET r == DequeueTaskAt(State, i, NoOutput, want_lock) IN
    IF tasks_[i] = <<>>
    THEN CleanupOfEmptySlot(State, r, i) /\ r.out = NoOutput
    ELSE NoCleanup(State, r, i, want_lock)

\* An imported slot and a finished slot of this rank, both with an empty
\* heap, and a slot with tasks beside them.
CleanupCasesWitness ==
  /\ ~aborted
  /\ \E i \in 1 .. Len(tasks_) :
       tasks_[i] = <<>> /\ query_subtables_[i].rank # world.rank
  /\ \E i \in 1 .. Len(tasks_) :
       /\ tasks_[i] = <<>> /\ query_subtables_[i].rank = world.rank
       /\ remaining_work_for_query_subtables_[i] = 0
  /\ \E i \in 1 .. Len(tasks_) : tasks_[i] # <<>>

-----------------------------------------------------------------------------
(* C26 *)

\* The front entry of the checked-out list of after holds what slot i of
\* before held, less the task given out, and the rank given locks it.
CheckedOutFrom(before, after, i, first, rank) ==
  /\ Len(after.checked_out_query_subtables_)
       = Len(before.checked_out_query_subtables_) + 1
  /\ LET e == after.checked_out_query_subtables_[1] IN
       /\ e.query_subtable_ = before.query_subtables_[i]
       /\ before.tasks_[i] = <<first>> \o e.task_
       /\ \A k \in 1 .. Len(e.task_) : e.task_[k] # first
       /\ e.assigned_work_ = before.assigned_work_[i]
       /\ e.remaining_work_for_query_subtable_
            = before.remaining_work_for_query_subtables_[i]
       /\ e.locked_mpi_rank_ = rank
  /\ SlotGone(before, after, i)

\* C26: in every reachable state and for every active slot with tasks, the
\* single-slot DequeueTask with a checkout handle moves the slot's subtable,
\* the rest of its heap, its assigned work and its remaining work into a
\* new checked-out entry locked to this process's own rank, the task given
\* out is not in that entry's heap, and num_exported_query_subtables_ is
\* incremented.
DequeueChecksOut ==
  \A i \in 1 .. Len(tasks_) :
    tasks_[i] # <<>> =>
      LET r == DequeueTaskAt(State, i, NoOutput, TRUE) IN
        /\ CheckedOutFrom(State, r.s, i, r.out.first, world.rank)
        /\ r.out.lock = r.s.checked_out_query_subtables_[1].node
        /\ r.s.num_exported_query_subtables_ = num_exported_query_subtables_ + 1

-----------------------------------------------------------------------------
(* C27 *)

\* C27: in every reachable state with n active slots and for every slot i,
\* Evict_(i) leaves n - 1 slots; every slot other than i and the last keeps
\* its subtable, heap, assigned work and remaining work at its index; if i
\* is not the last slot, position i holds the four records of the former
\* last slot; if it is, the last slot is just removed; and no counter, nor
\* the checked-out list, nor the exchange changes.
EvictFrame ==
  \A i \in 1 .. Len(query_subtables_) :
    LET n == Len(query_subtables_)
        after == Evict_(State, i)
    IN /\ Len(after.query_subtables_) = n - 1
       /\ Len(after.tasks_) = n - 1
       /\ Len(after.assigned_work_) = n - 1
       /\ Len(after.remaining_work_for_query_subtables_) = n - 1
       /\ \A j \in 1 .. (n - 1) :
            SlotRecords(after)[j] = SlotRecords(State)[IF j = i THEN n ELSE j]
       /\ CountersKept(State, after, 0)
       /\ after.table_exchange_ = table_exchange_
       /\ after.num_threads_ = num_threads_
       /\ after.aborted = aborted

\* Three slots or more that differ from one another, one of them with
\* tasks: evicting the first moves the last into its place.
EvictFrameWitness ==
  /\ ~aborted
  /\ Len(query_subtables_) >= 3
  /\ \A i, j \in 1 .. Len(query_subtables_) :
       i # j => SlotRecords(State)[i] # SlotRecords(State)[j]
  /\ \E i \in 1 .. Len(tasks_) : tasks_[i] # <<>>

-----------------------------------------------------------------------------
(* C28 *)

\* after is before with slot i split: slot i holds the left child, a new
\* last slot the right child of the same table and origin, both with the
\* remaining work and the assigned work slot i had, and the other slots
\* are as they were.
SplitInTwo(before, after, i) ==
  LET n == Len(before.query_subtables_)
      q == before.query_subtables_[i]
  IN /\ ~after.aborted
     /\ Len(after.query_subtables_) = n + 1
     /\ Len(after.tasks_) = n + 1
     /\ Len(after.assigned_work_) = n + 1
     /\ Len(after.remaining_work_for_query_subtables_) = n + 1
     /\ after.query_subtables_[i] = set_start_node(q, left(start_node(q)))
     /\ after.query_subtables_[n + 1] = set_start_node(q, right(start_node(q)))
     /\ after.remaining_work_for_query_subtables_[i]
          = before.remaining_work_for_query_subtables_[i]
     /\ after.remaining_work_for_query_subtables_[n + 1]
          = before.remaining_work_for_query_subtables_[i]
     /\ ~after.assigned_work_[n + 1].null
     /\ after.assigned_work_[i] = before.assigned_work_[i]
     /\ after.assigned_work_[n + 1].intervals = before.assigned_work_[i].intervals
     /\ \A j \in 1 .. n : j # i => SlotRecords(after)[j] = SlotRecords(before)[j]

\* C28: in every reachable state and for every active slot whose subtree
\* is not a leaf, with or without tasks, split_subtree_ adds exactly one
\* slot: the slot keeps its index and holds the left child, the new last
\* slot holds the right child with the same origin, the same remaining
\* work and a copy of the assigned work, and all other slots are unchanged.
SplitContract ==
  ~aborted =>
    \A i \in 1 .. Len(query_subtables_) :
      ~is_leaf(start_node(query_subtables_[i])) =>
        SplitInTwo(State, split_subtree_(State, i), i)

-----------------------------------------------------------------------------
(* C29 *)

\* The tasks of heap h that refer to the reference subtable r.
TasksFor(h, r) == {k \in 1 .. Len(h) : h[k].reference_subtable = r}

\* heap holds, for each task of prev_tasks, exactly one task with that
\* reference subtable, made for the query subtable q with the priority that
\* PushTask computes from q's bound, and no other task.
DuplicatedOn(heap, prev_tasks, q) ==
  /\ Len(heap) = Len(prev_tasks)
  /\ \A k \in 1 .. Len(prev_tasks) :
       LET r == prev_tasks[k].reference_subtable IN
         /\ Cardinality(TasksFor(heap, r)) = 1
         /\ \A m \in TasksFor(heap, r) : heap[m] = Task(q, r, Priority2(q, r))

\* C29: in every reachable state and for every active slot that is not a
\* leaf and holds n tasks, split_subtree_ leaves each of the n reference
\* subtables exactly once in the left slot's heap and exactly once in the
\* right slot's heap, with the priorities of the left and of the right
\* bound, locks each task's cache block exactly once more (n calls of
\* LockCache(cache id, 1)), raises num_remaining_tasks_ by n and leaves
\* remaining_local_computation_ as it was.
SplitDuplicatesTasks ==
  ~aborted =>
    \A i \in 1 .. Len(query_subtables_) :
      ~is_leaf(start_node(query_subtables_[i])) =>
        LET after == split_subtree_(State, i)
            last == Len(query_subtables_) + 1
            n == Len(tasks_[i])
        IN /\ ~after.aborted
           /\ DuplicatedOn(after.tasks_[i], tasks_[i], after.query_subtables_[i])
           /\ DuplicatedOn(after.tasks_[last], tasks_[i], after.query_subtables_[last])
           /\ after.query_subtables_[i].count + after.query_subtables_[last].count
                = query_subtables_[i].count
           /\ \A c \in CacheIds :
                after.table_exchange_.cache_locks[c]
                  = table_exchange_.cache_locks[c]
                      + Cardinality({k \in 1 .. n :
                           tasks_[i][k].reference_subtable.cache_block_id = c})
           /\ after.num_remaining_tasks_ = num_remaining_tasks_ + n
           /\ after.remaining_local_computation_ = remaining_local_computation_

-----------------------------------------------------------------------------
(* C30 *)

\* The slots RedistributeAmongCores_ may split: not a leaf, and with tasks.
SplitCandidates(s) ==
  {i \in 1 .. Len(s.query_subtables_) :
     ~is_leaf(start_node(s.query_subtables_[i])) /\ s.tasks_[i] # <<>>}

\* The slots and checked-out entries of s.
NumberOfHeld(s) == Len(s.query_subtables_) + Len(s.checked_out_query_subtables_)

\* C30: in every reachable state RedistributeAmongCores_ does what
\* split_subtree_ does on one slot, one with the largest point count among
\* the slots that are not leaves and have tasks, so that this slot and no
\* other is split, and changes nothing at all when there is no such slot;
\* and a scanning DequeueTask, with or without a handle, makes at most
\* this one split, and none when the active slots are not fewer than
\* num_threads_: the cache locks after the call are those after the one
\* redistribution (or those before the call), and no further slot appears.
RedistributeChoice ==
  LET redistributed == RedistributeAmongCores_(State)
      attempted == IF Len(tasks_) < num_threads_ THEN redistributed ELSE State
  IN /\ SplitCandidates(State) = {} => redistributed = State
     /\ SplitCandidates(State) # {} =>
          \E i \in SplitCandidates(State) :
            /\ \A j \in SplitCandidates(State) :
                 query_subtables_[j].count <= query_subtables_[i].count
            /\ redistributed = split_subtree_(State, i)
            /\ ~redistributed.aborted =>
                 /\ SplitInTwo(State, redistributed, i)
                 /\ Len(redistributed.tasks_[i]) = Len(tasks_[i])
                 /\ redistributed.checked_out_query_subtables_
                      = checked_out_query_subtables_
     /\ \A want_lock \in BOOLEAN :
          LET r == DequeueTask(State, want_lock) IN
            /\ r.s.table_exchange_.cache_locks = attempted.table_exchange_.cache_locks
            /\ NumberOfHeld(r.s) <= NumberOfHeld(attempted)
            /\ NumberOfHeld(attempted) <= NumberOfHeld(State) + 1
            /\ Len(tasks_) >= num_threads_ => NumberOfHeld(r.s) <= NumberOfHeld(State)

\* Fewer slots than threads, and of two slots that may be split the later
\* one is the larger.
RedistributeChoiceWitness ==
  /\ ~aborted
  /\ Len(tasks_) < num_threads_
  /\ \E i, j \in SplitCandidates(State) :
       i < j /\ query_subtables_[i].count < query_subtables_[j].count

-----------------------------------------------------------------------------------------------------------------------------------------------------
(* C31 *)

-----------------------------------------------------------------------------
(* C32 *)

-----------------------------------------------------------------------------
(* C33 *)

\* C33: in every reachable state, PrepareExtraTaskList for any neighbor,
\* any budget among 0, 1, NumPoints and 3 * NumPoints, and any set of
\* subtables the neighbor owns ends, and has moved n slots into n new
\* entries locked to the neighbor with num_exported_query_subtables_
\* raised by n: none of them owned by the neighbor, together within the
\* budget, the first of them the slot of lowest index that could be taken,
\* and no slot left behind that is neither owned nor too large for what
\* remains of the budget.  A single slot smaller than the budget, with
\* nothing owned, is exported and no active slot remains.
PrepareExtraTaskListExports ==
  ~aborted =>
    \A neighbor \in RemoteRanks : \A budget \in {0, 1, NumPoints, 3 * NumPoints} :
      \A owned \in OwnedSets(neighbor) \cup {{}} :
        LET before == State
            after == PrepareExtraTaskList(State, neighbor, budget, owned)
            n == Len(after.checked_out_query_subtables_)
                   - Len(before.checked_out_query_subtables_)
            EntryRecords(e) ==
              <<e.query_subtable_, e.task_, e.assigned_work_,
                e.remaining_work_for_query_subtable_>>
            exported == [k \in 1 .. n |->
                           after.checked_out_query_subtables_[k].query_subtable_.count
                             + SumOfCounts(after.checked_out_query_subtables_[k].task_)]
            unused == budget - SumOverSeq(exported, n)
            exportable == {i \in 1 .. Len(before.query_subtables_) :
                             /\ subtable_id(before.query_subtables_[i]) \notin owned
                             /\ PointsOfSlot(before, i) <= budget}
        IN /\ n >= 0
           /\ ~after.aborted
           /\ after.num_exported_query_subtables_
                = before.num_exported_query_subtables_ + n
           /\ Len(after.query_subtables_) = Len(before.query_subtables_) - n
           /\ SubSeq(after.checked_out_query_subtables_, n + 1,
                     Len(after.checked_out_query_subtables_))
                = before.checked_out_query_subtables_
           /\ \A k \in 1 .. n :
                LET e == after.checked_out_query_subtables_[k] IN
                  /\ e.locked_mpi_rank_ = neighbor
                  /\ subtable_id(e.query_subtable_) \notin owned
           /\ \A i \in 1 .. Len(before.query_subtables_) :
                LET x == SlotRecords(before)[i] IN
                  Occurrences(SlotRecords(before), x)
                    = Occurrences(SlotRecords(after), x)
                        + Cardinality({k \in 1 .. n :
                             EntryRecords(after.checked_out_query_subtables_[k]) = x})
           /\ unused >= 0
           /\ \A i \in 1 .. Len(after.query_subtables_) :
                \/ subtable_id(after.query_subtables_[i]) \in owned
                \/ PointsOfSlot(after, i) > unused
           /\ n >= 1 =>
                /\ exportable # {}
                /\ EntryRecords(after.checked_out_query_subtables_[n])
                     = SlotRecords(before)[CHOOSE i \in exportable :
                                             \A j \in exportable : i <= j]
           /\ (Len(before.query_subtables_) = 1 /\ owned = {}
                 /\ budget > PointsOfSlot(before, 1)) =>
                /\ n = 1
                /\ after.query_subtables_ = <<>>

\* Two slots have been exported by one PrepareExtraTaskList.
PrepareExtraTaskListExportsWitness ==
  /\ ~aborted
  /\ load_balancing_turns = 1
  /\ num_exported_query_subtables_ = 2
  /\ Cardinality(RemotelyLocked) = 2

-----------------------------------------------------------------------------
(* C34 *)

RECURSIVE CreatedForSlots(_, _, _)
\* The tasks that the loop over the active slots creates from slot j on, in
\* the order in which it creates them: of each, the query subtable and the
\* number of locks on the cache block after LockCache.
CreatedForSlots(s, j, id) ==
  IF j > Len(s.query_subtables_) THEN <<>>
  ELSE LET after == GenerateForSlot(s, j, id) IN
       (IF after # s
        THEN <<[query_subtable |-> s.query_subtables_[j],
                locks |-> after.table_exchange_.cache_locks[id[4]]]>>
        ELSE <<>>)
         \o CreatedForSlots(after, j + 1, id)

RECURSIVE CreatedForLocks(_, _, _)
\* The tasks that the loop over the checked-out list creates from the k-th
\* node on, in the order in which it creates them.
CreatedForLocks(s, k, id) ==
  IF s.aborted \/ k > Len(s.checked_out_query_subtables_) THEN <<>>
  ELSE LET after == GenerateForLock(s, k, id) IN
       (IF after # s /\ ~after.aborted
        THEN <<[query_subtable |-> s.checked_out_query_subtables_[k].query_subtable_,
                locks |-> after.table_exchange_.cache_locks[id[4]]]>>
        ELSE <<>>)
         \o CreatedForLocks(after, k + 1, id)

\* The active slots, by increasing index, that take a task for the tuple.
SlotsServed(id) ==
  SelectSeq([j \in 1 .. Len(query_subtables_) |-> j],
            LAMBDA j : /\ query_subtables_[j].rank = world.rank
                       /\ CanInsert(assigned_work_[j], ReferenceGrid(id)))

\* The checked-out entries, from the front of the list to its back, that
\* take a task for the tuple.
LocksServed(id) ==
  SelectSeq([k \in 1 .. Len(checked_out_query_subtables_) |-> k],
            LAMBDA k : CanInsert(checked_out_query_subtables_[k].assigned_work_,
                                 ReferenceGrid(id)))

\* GenerateTasks creates the tasks of the active slots by increasing index
\* and then those of the checked-out entries from the front of the list to
\* its back, one cache lock with each task.
CreatedInListOrder ==
  \A id \in ReceivedSubTableIds :
    ~GenerateTasks(State, <<id>>).aborted =>
      LET created == CreatedForSlots(State, 1, id)
                       \o CreatedForLocks(GenerateForSlots(State, 1, id), 1, id)
      IN /\ Len(created) = Len(SlotsServed(id)) + Len(LocksServed(id))
         /\ \A n \in 1 .. Len(created) :
              /\ created[n].locks = table_exchange_.cache_locks[id[4]] + n
              /\ created[n].query_subtable =
                   IF n <= Len(SlotsServed(id))
                   THEN query_subtables_[SlotsServed(id)[n]]
                   ELSE checked_out_query_subtables_[
                          LocksServed(id)[n - Len(SlotsServed(id))]].query_subtable_

\* C34 as stated: GenerateTasks serves the active slots by increasing index
\* and then the checked-out entries oldest checkout first; the list, walked
\* from its front, would have to take every new checkout at its back.
CreatedOldestFirst ==
  [][/\ CreatedInListOrder
     /\ Len(checked_out_query_subtables_') > Len(checked_out_query_subtables_) =>
          SubSeq(checked_out_query_subtables_', 1, Len(checked_out_query_subtables_))
            = checked_out_query_subtables_]_vars

\* C34, amended: GenerateTasks serves the active slots by increasing index
\* and then the checked-out entries newest checkout first: every checkout
\* goes to the front of the list, ahead of the entries that were there, and
\* the list is walked from its front.
CreatedNewestFirst ==
  [][/\ CreatedInListOrder
     /\ Len(checked_out_query_subtables_') > Len(checked_out_query_subtables_) =>
          SubSeq(checked_out_query_subtables_',
                 Len(checked_out_query_subtables_')
                   - Len(checked_out_query_subtables_) + 1,
                 Len(checked_out_query_subtables_'))
            = checked_out_query_subtables_]_vars

\* An active slot and two checked-out entries all get a task for one
\* received tuple.
CreatedNewestFirstWitness ==
  /\ ~aborted
  /\ \E id \in ReceivedSubTableIds :
       /\ ~GenerateTasks(State, <<id>>).aborted
       /\ Len(SlotsServed(id)) >= 1
       /\ Len(LocksServed(id)) >= 2
       /\ Len(CreatedForLocks(GenerateForSlots(State, 1, id), 1, id)) >= 2

-----------------------------------------------------------------------------
(* C35 *)

\* C35: in every reachable state and for every received tuple, the loop of
\* GenerateTasks over the active slots gives a task to a slot only if the
\* slot's table is this process's and the interval can be inserted, leaves
\* the heap and the assigned work of every imported slot as they were, and
\* locks the tuple's cache block once per task created and no other block;
\* the whole of GenerateTasks, checked-out entries included, locks the
\* block as many times as it creates tasks.  A slot that takes a task has
\* one task more, for the reference subtable of the tuple, and the
\* interval assigned; any other slot keeps its heap and assigned work.
GenerateLocksPerTask ==
  ~aborted =>
    \A id \in ReceivedSubTableIds :
      LET slots == GenerateForSlots(State, 1, id)
          after == GenerateTasks(State, <<id>>)
          SlotGenerated(later, j) ==
            IF /\ query_subtables_[j].rank = world.rank
               /\ CanInsert(assigned_work_[j], ReferenceGrid(id))
            THEN /\ Len(later.tasks_[j]) = Len(tasks_[j]) + 1
                 /\ Cardinality(TasksFor(later.tasks_[j], FrontierReferenceSubTable(id)))
                      = Cardinality(TasksFor(tasks_[j], FrontierReferenceSubTable(id))) + 1
                 /\ later.assigned_work_[j] = Insert(assigned_work_[j], ReferenceGrid(id))
            ELSE /\ later.tasks_[j] = tasks_[j]
                 /\ later.assigned_work_[j] = assigned_work_[j]
          LockedTimes(later, n) ==
            later.table_exchange_.cache_locks
              = [table_exchange_.cache_locks EXCEPT ![id[4]] = @ + n]
      IN /\ ~slots.aborted
         /\ slots.query_subtables_ = query_subtables_
         /\ \A j \in 1 .. Len(query_subtables_) : SlotGenerated(slots, j)
         /\ LockedTimes(slots, NumberOfTasks(slots) - NumberOfTasks(State))
         /\ slots.num_remaining_tasks_ - num_remaining_tasks_
              = NumberOfTasks(slots) - NumberOfTasks(State)
         /\ ~after.aborted =>
              /\ \A j \in 1 .. Len(query_subtables_) : SlotGenerated(after, j)
              /\ LockedTimes(after, after.num_remaining_tasks_ - num_remaining_tasks_)
              /\ after.num_remaining_tasks_ - num_remaining_tasks_
                   = (NumberOfTasks(slots) - NumberOfTasks(State))
                       + Len(LocksServed(id))

\* Reference subtables have been processed; an imported slot is active
\* without tasks beside a slot of this process that has one, and a
\* checked-out entry has a task.
GenerateLocksPerTaskWitness ==
  /\ ~aborted
  /\ processed # {}
  /\ \E j \in 1 .. Len(query_subtables_) :
       query_subtables_[j].rank # world.rank /\ tasks_[j] = <<>>
  /\ \E j \in 1 .. Len(query_subtables_) :
       query_subtables_[j].rank = world.rank /\ tasks_[j] # <<>>
  /\ \E k \in 1 .. Len(checked_out_query_subtables_) :
       checked_out_query_subtables_[k].task_ # <<>>

-----------------------------------------------------------------------------
(* C36 *)

\* C36: when the workers dequeue with a checkout handle, every worker that
\* has a task holds a handle; the handle's entry is in the checked-out
\* list, locked by this process, and its subtable is the query subtable of
\* the worker's task; no active slot covers any point of that subtable, so
\* no dequeue, split, export, eviction or flush, which all go by the index
\* of an active slot, can reach it; and no two workers hold the same entry
\* or tasks for query subtables that share a point.
OneHolderPerSubtree ==
  LET Holders == {t \in Workers : threads[t].lock >= 0} IN
  lock_on_dequeue =>
    /\ \A t \in Workers : threads[t].pc # "idle" => t \in Holders
    /\ \A t \in Holders :
         LET k == PositionOf(State, threads[t].lock) IN
           /\ k >= 1
           /\ checked_out_query_subtables_[k].query_subtable_
                = threads[t].task.query_subtable
           /\ checked_out_query_subtables_[k].locked_mpi_rank_ = world.rank
           /\ \A i \in 1 .. Len(query_subtables_) :
                ~Overlap(query_subtables_[i], threads[t].task.query_subtable)
           /\ \A j \in 1 .. Len(checked_out_query_subtables_) :
                j # k => ~Overlap(checked_out_query_subtables_[j].query_subtable_,
                                  threads[t].task.query_subtable)
           /\ \A u \in Holders \ {t} :
                /\ threads[u].lock # threads[t].lock
                /\ ~Overlap(threads[u].task.query_subtable,
                            threads[t].task.query_subtable)

\* Two workers hold handles at once, for the two halves of one table, while
\* an active slot has tasks left.
OneHolderPerSubtreeWitness ==
  /\ ~aborted
  /\ lock_on_dequeue
  /\ \E t, u \in Workers :
       /\ t # u
       /\ threads[t].lock >= 0
       /\ threads[u].lock >= 0
       /\ threads[t].task.query_subtable.rank = threads[u].task.query_subtable.rank
  /\ \E i \in 1 .. Len(tasks_) : tasks_[i] # <<>>

-----------------------------------------------------------------------------
(* C37 *)

\* C37 as stated: in every reachable state the remaining work of every
\* active slot and of every checked-out entry is a count of reference
\* points still to come, between 0 and the world.size * NumPoints
\* reference points of all processes that a slot starts with; no decrement
\* has taken it below zero, where the unsigned counter wraps to a huge
\* value.
RemainingWorkNeverWraps ==
  /\ \A i \in 1 .. Len(remaining_work_for_query_subtables_) :
       remaining_work_for_query_subtables_[i] <= world.size * NumPoints
  /\ \A k \in 1 .. Len(checked_out_query_subtables_) :
       checked_out_query_subtables_[k].remaining_work_for_query_subtable_
         <= world.size * NumPoints

-----------------------------------------------------------------------------
(* C38 *)

\* C38 as stated: while a worker that dequeued without a checkout handle
\* is at work on its task, the index it was given (task_out->second) is an
\* index of an active slot, and the query subtable in that slot is the one
\* its task was made for.
SlotIndexStable ==
  \A t \in Workers :
    (threads[t].pc # "idle" /\ threads[t].lock < 0) =>
      /\ threads[t].second + 1 \in 1 .. Len(query_subtables_)
      /\ subtable_id(query_subtables_[threads[t].second + 1])
           = subtable_id(threads[t].task.query_subtable)

-----------------------------------------------------------------------------
(* C39 *)

\* C39 as stated: in every reachable state and for every received tuple,
\* after GenerateTasks has returned the assigned work of every active slot
\* of this process's table and of every checked-out entry covers the whole
\* of the tuple's interval (every point of it lies in an interval recorded
\* for its rank), whether or not the interval overlaps one that was
\* assigned before.
GeneratedCoversInterval ==
  ~aborted =>
    \A id \in ReceivedSubTableIds :
      LET after == GenerateTasks(State, <<id>>)
          Covers(d, iv) ==
            \A p \in iv.begin .. (iv.end - 1) :
              \E old \in d.intervals :
                old.rank = iv.rank /\ old.begin <= p /\ p < old.end
      IN ~after.aborted =>
           /\ \A j \in 1 .. Len(after.query_subtables_) :
                after.query_subtables_[j].rank = world.rank
                  => Covers(after.assigned_work_[j], ReferenceGrid(id))
           /\ \A k \in 1 .. Len(after.checked_out_query_subtables_) :
                Covers(after.checked_out_query_subtables_[k].assigned_work_,
                       ReferenceGrid(id))
====
